---- MODULE Spec2Model ----
\* A model of the aiocogeo-rs metadata parsing engine: the byte-range cursor
\* (cursor.rs), the header validation of COGReader::try_open (cog.rs), the IFD
\* chain walker, the tag/value decoder and the directory accessors (ifd.rs),
\* and the GeoKey directory (geo_key_directory.rs).
\*
\* The remote object is a sequence of bytes; offset p of the object is
\* file[p + 1].  Every range request the cursor issues is appended to the
\* ghost variable `fetches`.
EXTENDS Integers, Sequences, FiniteSets, TLC

VARIABLES
    file,               \* the remote object: a sequence of bytes
    pc,                 \* position of the open operation
    offset,             \* ObjectStoreCursor.offset
    endianness,         \* ObjectStoreCursor.endianness
    fetches,            \* ghost: every range <<lo, hi>> requested from the store
    version,            \* try_open: the decoded version field (None before it is read)
    next_ifd_offset,    \* ImageFileDirectories::open: Some(offset) | None
    visited,            \* ghost: the node offsets handed to ImageFileDirectory::read
    ifds,               \* ImageFileDirectories::open: the local `ifds` vector
    result,             \* what the operation handed to its caller
    ifd,                \* the directory the accessors are called on
    call,               \* the last accessor call and its outcome
    tasks               \* the get_tile calls in progress, one record per task

vars == <<file, pc, offset, endianness, fetches, version, next_ifd_offset,
          visited, ifds, result, ifd, call, tasks>>

\* ---------------------------------------------------------------------------
\* Bounds of the model

\* The walk over a cyclic chain never ends; the model stops it after MaxWalk
\* directories.
MaxWalk == 4

\* The objects of the model hold chains of at most MaxNodes directories.
MaxNodes == 3
\* image sides 0..MaxSide and tile sides 1..MaxTile of the queried directories
MaxSide == 5
MaxTile == 3
\* tile coordinates 0..MaxXY asked of get_tile
MaxXY == 3
\* cursor exercise: read lengths and advances 0..MaxRead, seeks to 0..MaxSeek,
\* at most MaxOps fetches
MaxRead == 2
MaxSeek == 1
MaxOps == 2
\* concurrent get_tile calls
NTasks == 2
\* value counts 0..MaxCount of the tag record under test
MaxCount == 5

\* key records in a GeoKey directory
MaxKeys == 2

\* ---------------------------------------------------------------------------
\* Options, outcomes, numbers

None == [some |-> FALSE]
Some(x) == [some |-> TRUE, val |-> x]
IsSome(o) == o.some

\* A number the model does not track exactly: an unsigned value of 2^31 or
\* more, or an offset past any object of the model.
Huge == 0 - 1

Pow2(n) == 2 ^ n

RECURSIVE SumLE(_)
\* little-endian composition of at most 4 bytes whose value is below 2^31
SumLE(bs) == IF bs = <<>> THEN 0 ELSE Head(bs) + 256 * SumLE(Tail(bs))

Reverse(s) == [i \in 1..Len(s) |-> s[Len(s) + 1 - i]]

\* byteorder: the bytes of a scalar, least significant byte first
LittleFirst(bs, e) == IF e = "LittleEndian" THEN bs ELSE Reverse(bs)

\* an unsigned scalar of 1, 2 or 4 bytes (given least significant byte first)
Unsigned(ls) ==
    IF Len(ls) = 4 /\ ls[4] >= 128 THEN Huge ELSE SumLE(ls)

\* a signed scalar of 1, 2 or 4 bytes (two's complement)
Signed(ls) ==
    LET n == Len(ls)
        top == ls[n]
        low == SumLE([i \in 1..n |-> IF i = n THEN ls[i] % 128 ELSE ls[i]])
    IN IF top >= 128 THEN (low - Pow2(8 * n - 2)) - Pow2(8 * n - 2) ELSE low

\* A 64-bit number that does not fit 32 bits.
Over32 == 0 - 2

\* an unsigned 64-bit scalar: exact when below 2^31
Unsigned64(ls) ==
    IF \A i \in 5..8 : ls[i] = 0 THEN Unsigned(SubSeq(ls, 1, 4)) ELSE Over32

\* a signed 64-bit scalar: exact inside the 32-bit range
Signed64(ls) ==
    IF (\A i \in 5..8 : ls[i] = 0) /\ ls[4] < 128 THEN SumLE(SubSeq(ls, 1, 4))
    ELSE IF (\A i \in 5..8 : ls[i] = 255) /\ ls[4] >= 128 THEN Signed(SubSeq(ls, 1, 4))
    ELSE Over32

\* an IEEE-754 double (given least significant byte first): the integer it
\* denotes when it is an integer of magnitude below 2^29, its bits otherwise
F64(ls) ==
    LET bs == Reverse(ls)
        sign == bs[1] \div 128
        exp == (bs[1] % 128) * 16 + (bs[2] \div 16)
        m28 == (bs[2] % 16) * Pow2(24) + bs[3] * Pow2(16) + bs[4] * 256 + bs[5]
        lowzero == bs[6] = 0 /\ bs[7] = 0 /\ bs[8] = 0
        e == exp - 1023
    IN IF exp = 0 /\ m28 = 0 /\ lowzero THEN 0
       ELSE IF e >= 0 /\ e <= 28 /\ lowzero /\ m28 % Pow2(28 - e) = 0
            THEN LET mag == Pow2(e) + (m28 \div Pow2(28 - e))
                 IN IF sign = 1 THEN 0 - mag ELSE mag
       ELSE [bits |-> bs]

\* ---------------------------------------------------------------------------
\* ObjectStoreCursor (cursor.rs).  A cursor value is [offset, endianness, log];
\* every operation returns [st, c, v]: the status ("ok", "err" a TiffError
\* returned to the caller, "panic" an unwrap/assert that aborts the task), the
\* cursor after it, and the value read.

Cursor(o, e, l) == [offset |-> o, endianness |-> e, log |-> l]
Ret(st, c, v) == [st |-> st, c |-> c, v |-> v]

\* `let x = e; F(x)`: e is evaluated once and F continues with its value
Let(e, F(_)) == CHOOSE y \in {F(x) : x \in {e}} : TRUE

\* sequencing of fallible steps: a failed step r ends the operation with r,
\* a successful one continues with F
Bind(r, F(_)) == Let(r, LAMBDA x : IF x.st = "ok" THEN F(x) ELSE x)

\* offsets past 2^30 are not tracked exactly
Plus(o, n) ==
    IF o = Huge \/ n = Huge \/ o > Pow2(30) \/ n > Pow2(30) THEN Huge ELSE o + n

\* the store serves a range only when it lies inside the object
InObject(o, n) == Plus(o, n) # Huge /\ o >= 0 /\ o + n <= Len(file)

\* read leaving the offset where it was
ReadWithoutAdvance(cursor, length) ==
    Let(cursor, LAMBDA c :
        Let([c EXCEPT !.log = Append(c.log, <<c.offset, Plus(c.offset, length)>>)],
            LAMBDA c2 :
                IF InObject(c.offset, length)
                THEN Ret("ok", c2, SubSeq(file, c.offset + 1, c.offset + length))
                ELSE Ret("panic", c2, <<>>)))

\* read: lines 57-61.  The range is requested and the offset advanced; a store
\* error is unwrapped, which panics.
read(cursor, length) ==
    Let(cursor, LAMBDA c :
        Let([c EXCEPT !.offset = Plus(c.offset, length),
                      !.log = Append(c.log, <<c.offset, Plus(c.offset, length)>>)],
            LAMBDA c2 :
                IF InObject(c.offset, length)
                THEN Ret("ok", c2, SubSeq(file, c.offset + 1, c.offset + length))
                ELSE Ret("panic", c2, <<>>)))

seek(c, o) == [c EXCEPT !.offset = o]
advance(c, amount) == [c EXCEPT !.offset = Plus(c.offset, amount)]
position(c) == c.offset

\* a scalar read of `width` bytes decoded by `dec` in the cursor's byte order
ReadScalar(c, width, dec(_)) ==
    Bind(read(c, width),
         LAMBDA r : Ret("ok", r.c, dec(LittleFirst(r.v, r.c.endianness))))

read_u8(c) == ReadScalar(c, 1, Unsigned)
read_i8(c) == ReadScalar(c, 1, Signed)
read_u16(c) == ReadScalar(c, 2, Unsigned)
read_i16(c) == ReadScalar(c, 2, Signed)
read_u32(c) == ReadScalar(c, 4, Unsigned)
read_i32(c) == ReadScalar(c, 4, Signed)
read_u64(c) == ReadScalar(c, 8, Unsigned64)
read_i64(c) == ReadScalar(c, 8, Signed64)
read_f32(c) == ReadScalar(c, 4, Reverse)
read_f64(c) == ReadScalar(c, 8, F64)

\* ---------------------------------------------------------------------------
\* Value (tiff::decoder::ifd::Value) as [t, v]; an Ascii value holds its bytes

Val(t, v) == [t |-> t, v |-> v]

\* Type::from_u16 (ifd.rs line 565): the wire type of a type code, if any
Type_from_u16(n) ==
    CASE n = 1 -> Some("BYTE")
      [] n = 2 -> Some("ASCII")
      [] n = 3 -> Some("SHORT")
      [] n = 4 -> Some("LONG")
      [] n = 5 -> Some("RATIONAL")
      [] n = 6 -> Some("SBYTE")
      [] n = 7 -> Some("UNDEFINED")
      [] n = 8 -> Some("SSHORT")
      [] n = 9 -> Some("SLONG")
      [] n = 10 -> Some("SRATIONAL")
      [] n = 11 -> Some("FLOAT")
      [] n = 12 -> Some("DOUBLE")
      [] n = 13 -> Some("IFD")
      [] n = 16 -> Some("LONG8")
      [] n = 17 -> Some("SLONG8")
      [] n = 18 -> Some("IFD8")
      [] OTHER -> None

\* tag_size: lines 592-603
tag_size(tag_type) ==
    CASE tag_type \in {"BYTE", "SBYTE", "ASCII", "UNDEFINED"} -> 1
      [] tag_type \in {"SHORT", "SSHORT"} -> 2
      [] tag_type \in {"LONG", "SLONG", "FLOAT", "IFD"} -> 4
      [] tag_type \in {"LONG8", "SLONG8", "DOUBLE", "RATIONAL", "SRATIONAL", "IFD8"} -> 8

IsAscii(bs) == \A i \in 1..Len(bs) : bs[i] < 128

\* str::trim_matches(char::from(0)): NULs are removed at both ends only
RECURSIVE TrimNulFront(_)
TrimNulFront(bs) ==
    IF bs # <<>> /\ Head(bs) = 0 THEN TrimNulFront(Tail(bs)) ELSE bs

trim_matches_nul(bs) == Reverse(TrimNulFront(Reverse(TrimNulFront(bs))))

\* out.truncate(first) at the first NUL byte: lines 892-894
TruncateAtNul(bs) ==
    IF \E i \in 1..Len(bs) : bs[i] = 0
    THEN SubSeq(bs, 1, (CHOOSE i \in 1..Len(bs) : bs[i] = 0 /\ \A j \in 1..(i - 1) : bs[j] # 0) - 1)
    ELSE bs

\* String::from_utf8 accepts exactly the well-formed UTF-8 sequences
Cont(b) == b >= 128 /\ b <= 191
RECURSIVE Utf8Valid(_)
Utf8Valid(bs) ==
    IF bs = <<>> THEN TRUE
    ELSE LET b == bs[1]
             n == Len(bs)
         IN IF b < 128 THEN Utf8Valid(Tail(bs))
            ELSE IF b >= 194 /\ b <= 223
                 THEN n >= 2 /\ Cont(bs[2]) /\ Utf8Valid(SubSeq(bs, 3, n))
            ELSE IF b >= 224 /\ b <= 239
                 THEN /\ n >= 3 /\ Cont(bs[2]) /\ Cont(bs[3])
                      /\ (b = 224 => bs[2] >= 160)
                      /\ (b = 237 => bs[2] <= 159)
                      /\ Utf8Valid(SubSeq(bs, 4, n))
            ELSE IF b >= 240 /\ b <= 244
                 THEN /\ n >= 4 /\ Cont(bs[2]) /\ Cont(bs[3]) /\ Cont(bs[4])
                      /\ (b = 240 => bs[2] >= 144)
                      /\ (b = 244 => bs[2] <= 143)
                      /\ Utf8Valid(SubSeq(bs, 5, n))
            ELSE FALSE

\* the value of one element decoded from a buffer with byteorder LittleEndian
\* (the inline branches, lines 620-627, 665 and 680-760)
InlineElem(tag_type, bs) ==
    CASE tag_type \in {"BYTE", "UNDEFINED"} -> Val("Byte", Unsigned(bs))
      [] tag_type = "SBYTE" -> Val("Signed", Signed(bs))
      [] tag_type = "SHORT" -> Val("Short", Unsigned(bs))
      [] tag_type = "SSHORT" -> Val("Signed", Signed(bs))
      [] tag_type = "LONG" -> Val("Unsigned", Unsigned(bs))
      [] tag_type = "SLONG" -> Val("Signed", Signed(bs))
      [] tag_type = "FLOAT" -> Val("Float", Reverse(bs))
      [] tag_type = "IFD" -> Val("Ifd", Unsigned(bs))

\* one element read through the cursor, in the cursor's byte order (the loop
\* bodies of lines 781-883 and the pointer branches of lines 636-670)
CursorElem(c, tag_type) ==
    LET one(r, t) == Bind(r, LAMBDA x : Ret("ok", x.c, Val(t, x.v)))
    IN CASE tag_type \in {"BYTE", "UNDEFINED"} -> one(read_u8(c), "Byte")
         [] tag_type = "SBYTE" -> one(read_i8(c), "Signed")
         [] tag_type = "SHORT" -> one(read_u16(c), "Short")
         [] tag_type = "SSHORT" -> one(read_i16(c), "Signed")
         [] tag_type = "LONG" -> one(read_u32(c), "Unsigned")
         [] tag_type = "SLONG" -> one(read_i32(c), "Signed")
         [] tag_type = "FLOAT" -> one(read_f32(c), "Float")
         [] tag_type = "DOUBLE" -> one(read_f64(c), "Double")
         [] tag_type = "RATIONAL" ->
                Bind(read_u32(c), LAMBDA n : Bind(read_u32(n.c), LAMBDA d :
                    Ret("ok", d.c, Val("Rational", <<n.v, d.v>>))))
         [] tag_type = "SRATIONAL" ->
                Bind(read_i32(c), LAMBDA n : Bind(read_i32(n.c), LAMBDA d :
                    Ret("ok", d.c, Val("SRational", <<n.v, d.v>>))))
         [] tag_type = "LONG8" -> one(read_u64(c), "UnsignedBig")
         [] tag_type = "SLONG8" -> one(read_i64(c), "SignedBig")
         [] tag_type = "IFD" -> one(read_u32(c), "Ifd")
         [] tag_type = "IFD8" -> one(read_u64(c), "IfdBig")

\* `count` elements read one after another; the first failing read ends it.
\* The loop runs as its first half followed by the rest from where the first
\* half left the cursor, which keeps the nesting of the evaluation shallow.
RECURSIVE ReadElems(_, _, _, _)
ReadElems(c, tag_type, n, acc) ==
    IF n = 0 THEN Ret("ok", c, Val("List", acc))
    ELSE IF n = 1
         THEN Bind(CursorElem(c, tag_type),
                   LAMBDA r : Ret("ok", r.c, Val("List", Append(acc, r.v))))
    ELSE Bind(ReadElems(c, tag_type, n \div 2, acc),
              LAMBDA h : ReadElems(h.c, tag_type, n - (n \div 2), h.v.v))

\* a count the model does not track reads until the object is exhausted
LoopCount(count) == IF count = Huge THEN Len(file) + 1 ELSE count

\* Case 2, lines 608-673: one value.  value_byte_length bytes are read at the
\* value field; the 8-byte types take the first 4 of them as a pointer.
OneValue(c, tag_type) ==
    Bind(read(c, tag_size(tag_type)), LAMBDA r :
        IF tag_type = "ASCII"
        THEN IF r.v[1] = 0 THEN Ret("ok", r.c, Val("Ascii", <<>>))
             ELSE Ret("panic", r.c, <<>>)
        ELSE IF tag_size(tag_type) = 8
             THEN CursorElem(seek(r.c, Unsigned(SubSeq(r.v, 1, 4))), tag_type)
        ELSE Ret("ok", r.c, InlineElem(tag_type, r.v)))

\* several small values treated as if they lay behind a pointer
PackedAsPointer(c, tag_type, count) ==
    Bind(read_u32(c), LAMBDA p :
        ReadElems(seek(p.c, p.v), IF tag_type = "ASCII" THEN "BYTE" ELSE tag_type,
                  count, <<>>))

\* Case 3, lines 676-771: several values packed in the value field
PackedValues(c, tag_type, count) ==
    Bind(read(c, count * tag_size(tag_type)), LAMBDA r :
        LET w == tag_size(tag_type)
            c2 == advance(r.c, 4 - count * w)
        IN IF tag_type = "ASCII"
           THEN IF IsAscii(r.v) /\ r.v[Len(r.v)] = 0
                THEN Ret("ok", c2, Val("Ascii", trim_matches_nul(r.v)))
                ELSE Ret("panic", c2, <<>>)
           ELSE Ret("ok", c2,
                    Val("List", [i \in 1..count |->
                            InlineElem(tag_type, SubSeq(r.v, (i - 1) * w + 1, i * w))])))

\* values read where the cursor stands after the pointer, without the seek
PointedWithoutSeek(c, tag_type, count) ==
    Bind(read_u32(c), LAMBDA p :
        ReadElems(p.c, IF tag_type = "ASCII" THEN "BYTE" ELSE tag_type,
                  LoopCount(count), <<>>))

\* Case 4, lines 773-898: the value field is a pointer to the values
PointedValues(c, tag_type, count) ==
    Bind(read_u32(c), LAMBDA p :
        IF tag_type = "ASCII"
        THEN Bind(read(seek(p.c, p.v), count), LAMBDA r :
                Let(TruncateAtNul(r.v), LAMBDA out :
                    IF Utf8Valid(out) THEN Ret("ok", r.c, Val("Ascii", out))
                    ELSE Ret("err", r.c, <<>>)))
        ELSE ReadElems(seek(p.c, p.v), tag_type, LoopCount(count), <<>>))

\* read_tag_value: lines 581-899
read_tag_value(c, tag_type, count) ==
    IF count = 0 THEN Ret("ok", c, Val("List", <<>>))
    ELSE IF count = 1 THEN OneValue(c, tag_type)
    ELSE IF count # Huge /\ count <= 4 \div tag_size(tag_type)
         THEN PackedValues(c, tag_type, count)
    ELSE PointedValues(c, tag_type, count)

\* read_tag leaving the cursor where the value decoding ended
ReadTagWithoutSeek(c) ==
    Bind(read_u16(c), LAMBDA code :
    Bind(read_u16(code.c), LAMBDA ty :
        IF ~ IsSome(Type_from_u16(ty.v)) THEN Ret("panic", ty.c, <<>>)
        ELSE
    Bind(read_u32(ty.c), LAMBDA count :
    Bind(read_tag_value(count.c, Type_from_u16(ty.v).val, count.v), LAMBDA tag_value :
        Ret("ok", tag_value.c, [tag |-> code.v, value |-> tag_value.v])))))

\* read_tag: lines 558-574.  The value is [tag, value] with the tag's code.
read_tag(c) ==
    Bind(read_u16(c), LAMBDA code :
    Bind(read_u16(code.c), LAMBDA ty :
        IF ~ IsSome(Type_from_u16(ty.v)) THEN Ret("panic", ty.c, <<>>)
        ELSE
    Bind(read_u32(ty.c), LAMBDA count :
    Bind(read_tag_value(count.c, Type_from_u16(ty.v).val, count.v), LAMBDA tag_value :
        LET current_cursor_position == position(code.c)
        IN Ret("ok", seek(tag_value.c, current_cursor_position + 10),
               [tag |-> code.v, value |-> tag_value.v])))))

\* ---------------------------------------------------------------------------
\* Conversions of Value (the tiff crate's Value::into_*), as [st, v]

R(st, v) == [st |-> st, v |-> v]

into_u8(x) == IF x.t = "Byte" THEN R("ok", x.v) ELSE R("err", 0)

into_u16(x) ==
    CASE x.t = "Short" -> R("ok", x.v)
      [] x.t \in {"Unsigned", "UnsignedBig"} ->
            IF x.v >= 0 /\ x.v <= 65535 THEN R("ok", x.v) ELSE R("err", 0)
      [] OTHER -> R("err", 0)

into_u32(x) ==
    CASE x.t \in {"Short", "Unsigned", "Ifd"} -> R("ok", x.v)
      [] x.t \in {"UnsignedBig", "IfdBig"} ->
            IF x.v # Over32 THEN R("ok", x.v) ELSE R("err", 0)
      [] OTHER -> R("err", 0)

into_f64(x) == IF x.t = "Double" THEN R("ok", x.v) ELSE R("err", 0)

into_string(x) == IF x.t = "Ascii" THEN R("ok", x.v) ELSE R("err", 0)

\* a List converts element by element; the first failure fails the whole
VecOf(xs, conv(_)) ==
    IF \A i \in 1..Len(xs) : conv(xs[i]).st = "ok"
    THEN R("ok", [i \in 1..Len(xs) |-> conv(xs[i]).v])
    ELSE R("err", 0)

into_u8_vec(x) ==
    CASE x.t = "List" -> VecOf(x.v, into_u8)
      [] x.t = "Byte" -> R("ok", <<x.v>>)
      [] OTHER -> R("err", 0)

into_u16_vec(x) ==
    CASE x.t = "List" -> VecOf(x.v, into_u16)
      [] x.t = "Short" -> R("ok", <<x.v>>)
      [] OTHER -> R("err", 0)

into_u32_vec(x) ==
    CASE x.t = "List" -> VecOf(x.v, into_u32)
      [] x.t \in {"Unsigned", "Ifd"} -> R("ok", <<x.v>>)
      [] x.t \in {"UnsignedBig", "IfdBig"} ->
            IF x.v # Over32 THEN R("ok", <<x.v>>) ELSE R("err", 0)
      [] x.t = "Rational" -> R("ok", x.v)
      [] x.t = "Ascii" -> R("ok", x.v)
      [] OTHER -> R("err", 0)

into_f64_vec(x) ==
    CASE x.t = "List" -> VecOf(x.v, into_f64)
      [] x.t = "Double" -> R("ok", <<x.v>>)
      [] OTHER -> R("err", 0)

\* `.unwrap()` of a conversion: an Err becomes a panic
unwrap(r) == IF r.st = "ok" THEN r ELSE R("panic", 0)

\* the closed enumerations of tiff::tags (from_u16 gives None on other codes)
PhotometricInterpretation_from_u16(n) ==
    IF n \in {0, 1, 2, 3, 4, 5, 6, 8} THEN Some(n) ELSE None

PlanarConfiguration_from_u16(n) == IF n \in {1, 2} THEN Some(n) ELSE None

ResolutionUnit_from_u16(n) == IF n \in {1, 2, 3} THEN Some(n) ELSE None

Predictor_from_u16(n) == IF n \in {1, 2, 3} THEN Some(n) ELSE None

\* the field a tag code is folded into and the conversion applied to its
\* value: the match of lines 231-318
TagField(code) ==
    CASE code = 254 -> [f |-> "new_subfile_type", conv |-> "u32"]
      [] code = 256 -> [f |-> "image_width", conv |-> "u32"]
      [] code = 257 -> [f |-> "image_height", conv |-> "u32"]
      [] code = 258 -> [f |-> "bits_per_sample", conv |-> "u16_vec"]
      [] code = 259 -> [f |-> "compression", conv |-> "compression"]
      [] code = 262 -> [f |-> "photometric_interpretation", conv |-> "photometric"]
      [] code = 269 -> [f |-> "document_name", conv |-> "string"]
      [] code = 270 -> [f |-> "image_description", conv |-> "string"]
      [] code = 273 -> [f |-> "strip_offsets", conv |-> "u32_vec"]
      [] code = 274 -> [f |-> "orientation", conv |-> "u16_unwrap"]
      [] code = 277 -> [f |-> "samples_per_pixel", conv |-> "u16_unwrap"]
      [] code = 278 -> [f |-> "rows_per_strip", conv |-> "u32"]
      [] code = 279 -> [f |-> "strip_byte_counts", conv |-> "u32_vec"]
      [] code = 280 -> [f |-> "min_sample_value", conv |-> "u16_vec"]
      [] code = 281 -> [f |-> "max_sample_value", conv |-> "u16_vec"]
      [] code = 282 -> [f |-> "x_resolution", conv |-> "rational"]
      [] code = 283 -> [f |-> "y_resolution", conv |-> "rational"]
      [] code = 284 -> [f |-> "planar_configuration", conv |-> "planar"]
      [] code = 296 -> [f |-> "resolution_unit", conv |-> "resolution_unit"]
      [] code = 305 -> [f |-> "software", conv |-> "string"]
      [] code = 306 -> [f |-> "date_time", conv |-> "string"]
      [] code = 315 -> [f |-> "artist", conv |-> "string"]
      [] code = 316 -> [f |-> "host_computer", conv |-> "string"]
      [] code = 317 -> [f |-> "predictor", conv |-> "predictor"]
      [] code = 320 -> [f |-> "color_map", conv |-> "u16_vec"]
      [] code = 322 -> [f |-> "tile_width", conv |-> "u32"]
      [] code = 323 -> [f |-> "tile_height", conv |-> "u32"]
      [] code = 324 -> [f |-> "tile_offsets", conv |-> "u32_vec"]
      [] code = 325 -> [f |-> "tile_byte_counts", conv |-> "u32_vec"]
      [] code = 338 -> [f |-> "extra_samples", conv |-> "u8_vec"]
      [] code = 339 -> [f |-> "sample_format", conv |-> "u16_vec"]
      [] code = 347 -> [f |-> "jpeg_tables", conv |-> "u8_vec"]
      [] code = 33432 -> [f |-> "copyright", conv |-> "string"]
      [] code = 34735 -> [f |-> "geo_key_directory_data", conv |-> "u16_vec"]
      [] code = 33550 -> [f |-> "model_pixel_scale", conv |-> "f64_vec"]
      [] code = 33922 -> [f |-> "model_tiepoint", conv |-> "f64_vec"]
      [] code = 34737 -> [f |-> "geo_ascii_params", conv |-> "string"]
      [] code = 34736 -> [f |-> "geo_double_params", conv |-> "f64_vec"]
      [] OTHER -> [f |-> "other_tags", conv |-> "keep"]

\* the right-hand side of one match arm: the Option the local variable is
\* assigned, or the failure of the conversion
Convert(conv, x) ==
    LET some(r) == IF r.st = "ok" THEN R("ok", Some(r.v)) ELSE r
        enum(r, from(_)) == IF r.st = "ok" THEN R("ok", from(r.v)) ELSE r
    IN CASE conv = "u32" -> some(into_u32(x))
         [] conv = "u16_vec" -> some(into_u16_vec(x))
         [] conv = "u32_vec" -> some(into_u32_vec(x))
         [] conv = "u8_vec" -> some(into_u8_vec(x))
         [] conv = "f64_vec" -> some(into_f64_vec(x))
         [] conv = "string" -> some(into_string(x))
         [] conv = "u16_unwrap" -> some(unwrap(into_u16(x)))
         [] conv = "compression" -> some(unwrap(into_u16(x)))
         [] conv = "photometric" ->
                enum(unwrap(into_u16(x)), PhotometricInterpretation_from_u16)
         [] conv = "planar" -> enum(unwrap(into_u16(x)), PlanarConfiguration_from_u16)
         [] conv = "resolution_unit" ->
                enum(unwrap(into_u16(x)), ResolutionUnit_from_u16)
         [] conv = "predictor" -> enum(unwrap(into_u16(x)), Predictor_from_u16)
         [] conv = "rational" ->
                IF x.t = "Rational" THEN R("ok", Some(x.v)) ELSE R("panic", 0)
         [] conv = "keep" -> R("ok", Some(x))

\* ---------------------------------------------------------------------------
\* GeoKey directory (geo_key_directory.rs and ifd.rs lines 326-387)

\* GeoKeyTag::try_from_primitive succeeds on the ids of the enum, lines 9-62
KnownGeoKey(k) ==
    k \in (1024..1026) \cup (2048..2061) \cup (3072..3095) \cup (4096..4099)

\* the conversion GeoKeyDirectory::from_tags applies to a key, lines 168-259
GeoKeyConv(k) ==
    IF k \in {1026, 2049, 3073, 4097} THEN "string"
    ELSE IF k \in {1024, 1025, 2048, 2050, 2051, 2052, 2054, 2056, 2060,
                   3072, 3074, 3075, 3076, 4096, 4098, 4099} THEN "u16"
    ELSE "f64"

\* GeoKeyDirectory::from_tags, lines 118-313: a directory holds the converted
\* value of every key present (the fields left None are outside its domain)
GeoKeyDirectory_from_tags(tag_data) ==
    LET conv(k) == CASE GeoKeyConv(k) = "string" -> into_string(tag_data[k])
                     [] GeoKeyConv(k) = "u16" -> into_u16(tag_data[k])
                     [] GeoKeyConv(k) = "f64" -> into_f64(tag_data[k])
    IN IF \A k \in DOMAIN tag_data : conv(k).st = "ok"
       THEN R("ok", [k \in DOMAIN tag_data |-> conv(k).v])
       ELSE R("err", 0)

\* &str[a..b] panics unless both ends are char boundaries inside the string
CharBoundary(str, i) ==
    i = 0 \/ i = Len(str) \/ (i < Len(str) /\ ~ Cont(str[i + 1]))

Put(map, k, v) ==
    Let(map, LAMBDA f : [x \in (DOMAIN f) \cup {k} |-> IF x = k THEN v ELSE f[x]])

\* every key record resolved as if its location were 0
GeoKeyRecordByValue(chunk, tags, geo_ascii_params, geo_double_params) ==
    IF Len(chunk) < 4 \/ ~ KnownGeoKey(chunk[1]) THEN R("panic", 0)
    ELSE R("ok", Put(tags, chunk[1], Val("Short", chunk[4])))

\* a key record whose unknown key id is dropped instead of failing, and whose
\* ASCII value keeps its trailing separator
GeoKeyRecordLenient(chunk, tags, geo_ascii_params, geo_double_params) ==
    LET key_id == chunk[1]
        tag_location == chunk[2]
        count == chunk[3]
        value_offset == chunk[4]
    IN IF Len(chunk) < 4 THEN R("panic", 0)
       ELSE IF ~ KnownGeoKey(key_id) THEN R("ok", tags)
       ELSE IF tag_location = 0
            THEN R("ok", Put(tags, key_id, Val("Short", value_offset)))
       ELSE IF tag_location = 34737
            THEN IF ~ IsSome(geo_ascii_params)
                    \/ value_offset + count > Len(geo_ascii_params.val)
                 THEN R("panic", 0)
                 ELSE R("ok", Put(tags, key_id,
                            Val("Ascii", SubSeq(geo_ascii_params.val, value_offset + 1,
                                                value_offset + count))))
       ELSE IF tag_location = 34736
            THEN IF ~ IsSome(geo_double_params)
                    \/ value_offset + count > Len(geo_double_params.val)
                    \/ (count = 1 /\ value_offset >= Len(geo_double_params.val))
                 THEN R("panic", 0)
                 ELSE IF count = 1
                      THEN R("ok", Put(tags, key_id,
                                Val("Double", geo_double_params.val[value_offset + 1])))
                 ELSE R("ok", Put(tags, key_id,
                           Val("List", [i \in 1..count |->
                                Val("Double", geo_double_params.val[value_offset + i])])))
       ELSE R("ok", tags)

\* one key record, lines 341-383: the map after it, or a panic
GeoKeyRecord(chunk, tags, geo_ascii_params, geo_double_params) ==
    LET key_id == chunk[1]
        tag_location == chunk[2]
        count == chunk[3]
        value_offset == chunk[4]
    IN IF ~ KnownGeoKey(key_id) \/ Len(chunk) < 4 THEN R("panic", 0)
       ELSE IF tag_location = 0
            THEN R("ok", Put(tags, key_id, Val("Short", value_offset)))
       ELSE IF tag_location = 34737
            THEN IF ~ IsSome(geo_ascii_params) THEN R("panic", 0)
                 ELSE LET str == geo_ascii_params.val
                          hi == value_offset + count
                          sl == SubSeq(str, value_offset + 1, hi)
                      IN IF hi > Len(str) \/ ~ CharBoundary(str, value_offset)
                            \/ ~ CharBoundary(str, hi)
                         THEN R("panic", 0)
                         ELSE IF sl # <<>> /\ sl[Len(sl)] = 124
                              THEN R("ok", Put(tags, key_id,
                                        Val("Ascii", SubSeq(sl, 1, Len(sl) - 1))))
                         ELSE R("ok", Put(tags, key_id, Val("Ascii", sl)))
       ELSE IF tag_location = 34736
            THEN IF ~ IsSome(geo_double_params) THEN R("panic", 0)
                 ELSE LET ds == geo_double_params.val
                      IN IF count = 1
                         THEN IF value_offset >= Len(ds) THEN R("panic", 0)
                              ELSE R("ok", Put(tags, key_id,
                                        Val("Double", ds[value_offset + 1])))
                         ELSE IF value_offset + count > Len(ds) THEN R("panic", 0)
                         ELSE R("ok", Put(tags, key_id,
                                   Val("List", [i \in 1..count |->
                                        Val("Double", ds[value_offset + i])])))
       ELSE R("ok", tags)

\* the loop of lines 340-384 over the 4-short chunks after the header
RECURSIVE GeoKeyLoop(_, _, _, _, _, _)
GeoKeyLoop(data, i, n, tags, geo_ascii_params, geo_double_params) ==
    IF i > n THEN R("ok", tags)
    ELSE IF Len(data) <= 4 * i THEN R("panic", 0)
    ELSE LET hi == IF Len(data) < 4 * i + 4 THEN Len(data) ELSE 4 * i + 4
         IN Bind(GeoKeyRecord(SubSeq(data, 4 * i + 1, hi), tags,
                              geo_ascii_params, geo_double_params),
                 LAMBDA r : GeoKeyLoop(data, i + 1, n, r.v,
                                       geo_ascii_params, geo_double_params))

\* lines 326-387: the header checks, the key records, the typed directory
ParseGeoKeyDirectory(data, geo_ascii_params, geo_double_params) ==
    IF Len(data) < 4 \/ data[1] # 1 \/ data[2] # 1 THEN R("panic", 0)
    ELSE Bind(GeoKeyLoop(data, 1, data[4], <<>>, geo_ascii_params, geo_double_params),
              LAMBDA tags : GeoKeyDirectory_from_tags(tags.v))

\* ---------------------------------------------------------------------------
\* ImageFileDirectory (ifd.rs)

RequiredFields ==
    {"image_width", "image_height", "bits_per_sample", "compression",
     "photometric_interpretation", "samples_per_pixel", "planar_configuration",
     "tile_width", "tile_height", "tile_offsets", "tile_byte_counts",
     "sample_format"}

\* from_tags, lines 185-429.  The map is drained in an arbitrary order, so a
\* directory with several bad tags fails with any of their failures: the
\* result is the set of possible outcomes.
from_tags(tag_data, next) ==
    Let([code \in DOMAIN tag_data |-> Convert(TagField(code).conv, tag_data[code])],
        LAMBDA cr :
    LET failures == {cr[code].st : code \in DOMAIN cr} \ {"ok"}
        field(name) ==
            IF \E code \in DOMAIN cr : TagField(code).f = name
            THEN cr[CHOOSE code \in DOMAIN cr : TagField(code).f = name].v
            ELSE None
    IN IF failures # {} THEN {R(st, 0) : st \in failures}
       ELSE
    Let(IF IsSome(field("geo_key_directory_data"))
        THEN Let(ParseGeoKeyDirectory(field("geo_key_directory_data").val,
                        field("geo_ascii_params"), field("geo_double_params")),
                 LAMBDA g : IF g.st = "ok" THEN R("ok", Some(g.v)) ELSE g)
        ELSE R("ok", None),
        LAMBDA geo :
       IF geo.st # "ok" THEN {geo}
       ELSE IF \E name \in RequiredFields : ~ IsSome(field(name)) THEN {R("panic", 0)}
       ELSE {R("ok",
              [new_subfile_type |-> field("new_subfile_type"),
               image_width |-> field("image_width").val,
               image_height |-> field("image_height").val,
               bits_per_sample |-> field("bits_per_sample").val,
               compression |-> field("compression").val,
               photometric_interpretation |-> field("photometric_interpretation").val,
               document_name |-> field("document_name"),
               image_description |-> field("image_description"),
               strip_offsets |-> field("strip_offsets"),
               orientation |-> field("orientation"),
               samples_per_pixel |-> field("samples_per_pixel").val,
               rows_per_strip |-> field("rows_per_strip"),
               strip_byte_counts |-> field("strip_byte_counts"),
               min_sample_value |-> field("min_sample_value"),
               max_sample_value |-> field("max_sample_value"),
               x_resolution |-> field("x_resolution"),
               y_resolution |-> field("y_resolution"),
               planar_configuration |-> field("planar_configuration").val,
               resolution_unit |-> field("resolution_unit"),
               software |-> field("software"),
               date_time |-> field("date_time"),
               artist |-> field("artist"),
               host_computer |-> field("host_computer"),
               predictor |-> field("predictor"),
               color_map |-> field("color_map"),
               tile_width |-> field("tile_width").val,
               tile_height |-> field("tile_height").val,
               tile_offsets |-> field("tile_offsets").val,
               tile_byte_counts |-> field("tile_byte_counts").val,
               extra_samples |-> field("extra_samples"),
               sample_format |-> field("sample_format").val,
               jpeg_tables |-> field("jpeg_tables"),
               copyright |-> field("copyright"),
               geo_key_directory |-> geo.v,
               model_pixel_scale |-> field("model_pixel_scale"),
               model_tiepoint |-> field("model_tiepoint"),
               other_tags |-> [code \in {k \in DOMAIN tag_data :
                                            TagField(k).f = "other_tags"} |->
                                  tag_data[code]],
               next_ifd_offset |-> next])}))

\* the loop resolving the GeoKey directory as soon as its tag is met: the
\* side tags met after it come too late to be used
RECURSIVE ReadTagsResolvingEarly(_, _, _)
ReadTagsResolvingEarly(c, n, tags) ==
    IF n = 0 THEN Ret("ok", c, tags)
    ELSE IF n = 1
         THEN Bind(read_tag(c),
                   LAMBDA r : Ret("ok", r.c,
                                  IF r.v.tag \in {34736, 34737} /\ 34735 \in DOMAIN tags
                                  THEN tags ELSE Put(tags, r.v.tag, r.v.value)))
    ELSE Bind(ReadTagsResolvingEarly(c, n \div 2, tags),
              LAMBDA h : ReadTagsResolvingEarly(h.c, n - (n \div 2), h.v))

\* the loop keeping only the records whose tag has a field of its own
RECURSIVE ReadTagsModelledOnly(_, _, _)
ReadTagsModelledOnly(c, n, tags) ==
    IF n = 0 THEN Ret("ok", c, tags)
    ELSE IF n = 1
         THEN Bind(read_tag(c),
                   LAMBDA r : Ret("ok", r.c,
                                  IF TagField(r.v.tag).f = "other_tags"
                                  THEN tags ELSE Put(tags, r.v.tag, r.v.value)))
    ELSE Bind(ReadTagsModelledOnly(c, n \div 2, tags),
              LAMBDA h : ReadTagsModelledOnly(h.c, n - (n \div 2), h.v))

\* the loop of lines 164-167: tag_count records, each inserted under its tag;
\* the first half of the records, then the rest from where it ended
RECURSIVE ReadTags(_, _, _)
ReadTags(c, n, tags) ==
    IF n = 0 THEN Ret("ok", c, tags)
    ELSE IF n = 1
         THEN Bind(read_tag(c),
                   LAMBDA r : Ret("ok", r.c, Put(tags, r.v.tag, r.v.value)))
    ELSE Bind(ReadTags(c, n \div 2, tags),
              LAMBDA h : ReadTags(h.c, n - (n \div 2), h.v))

\* ImageFileDirectory::read, lines 156-179: the set of possible outcomes
ImageFileDirectory_read(c, ifd_start) ==
    Let(read_u16(seek(c, ifd_start)), LAMBDA tag_count :
        IF tag_count.st # "ok" THEN {tag_count}
        ELSE
    Let(ReadTags(tag_count.c, tag_count.v, <<>>), LAMBDA tags :
        IF tags.st # "ok" THEN {tags}
        ELSE
    Let(read_u32(seek(tags.c, ifd_start + (12 * tag_count.v) + 2)), LAMBDA next :
        IF next.st # "ok" THEN {next}
        ELSE {Ret(r.st, next.c, r.v) :
                r \in from_tags(tags.v, IF next.v = 0 THEN None ELSE Some(next.v))})))

\* ---------------------------------------------------------------------------
\* The objects the model opens: a header, an 8-byte data block at offset 8,
\* and up to MaxNodes directories of 12 records each, laid out back to back.

LE16(n) == <<n % 256, n \div 256>>
LE32(n) == <<n % 256, (n \div 256) % 256, (n \div 65536) % 256, n \div 16777216>>

TagRec(code, ty, count, field) == LE16(code) \o LE16(ty) \o LE32(count) \o field

RECURSIVE Flatten(_)
Flatten(ss) == IF ss = <<>> THEN <<>> ELSE Head(ss) \o Flatten(Tail(ss))

NodeBytes(recs, next) == LE16(Len(recs)) \o Flatten(recs) \o LE32(next)

DataBlock == <<8, 0, 8, 0, 8, 0, 0, 0>>
NodeSize == 2 + 12 * 12 + 4
NodeOffset(i) == 16 + (i - 1) * NodeSize

\* The records of directory i by kind.  "good": the twelve required tags, all
\* inline.  "pointed": BitsPerSample is three shorts behind a pointer.
\* "err": ImageWidth is an ASCII value, which into_u32 rejects.  "panic":
\* SampleFormat is replaced by an unmodelled tag, so a required tag is absent.
NodeRecs(i, kind) ==
    << TagRec(256, IF kind = "err" THEN 2 ELSE 4, 1, LE32(IF kind = "err" THEN 0 ELSE 512 * i)),
       TagRec(257, 4, 1, LE32(512)),
       IF kind = "pointed" THEN TagRec(258, 3, 3, LE32(8)) ELSE TagRec(258, 3, 1, LE32(8)),
       TagRec(259, 3, 1, LE32(8)),
       TagRec(262, 3, 1, LE32(1)),
       TagRec(277, 3, 1, LE32(1)),
       TagRec(284, 3, 1, LE32(1)),
       TagRec(322, 3, 1, LE32(512)),
       TagRec(323, 3, 1, LE32(512)),
       TagRec(324, 4, 1, LE32(1000 * i)),
       TagRec(325, 4, 1, LE32(100)),
       TagRec(IF kind = "panic" THEN 340 ELSE 339, 3, 1, LE32(1)) >>

NodeKinds == {"good", "pointed", "err", "panic"}

\* an object with n directories: directory i is of kind kinds[i] and its
\* next-IFD field points at directory nxt[i] (0: end of chain)
ChainFile(magic, ver, first, n, kinds, nxt) ==
    magic \o LE16(ver) \o first \o DataBlock
    \o Flatten([i \in 1..n |->
            NodeBytes(NodeRecs(i, kinds[i]),
                      IF nxt[i] = 0 THEN 0 ELSE NodeOffset(nxt[i]))])

II == <<73, 73>>
MM == <<77, 77>>

\* headers that differ in magic and version over one single-directory object,
\* and objects cut short
HeaderFiles ==
    {ChainFile(m, v, LE32(16), 1, <<"good">>, <<0>>) :
        m \in {II, MM, <<73, 77>>, <<0, 0>>}, v \in {42, 43, 0, 65535}}
    \cup {<<73>>, II \o <<42>>, II \o LE16(42) \o <<16, 0>>}
    \cup {ChainFile(II, 42, f, 1, <<"good">>, <<0>>) :
            f \in {LE32(16 + NodeSize), <<255, 255, 255, 255>>, LE32(0)}}

\* chains: n directories linked in the order `order` (any permutation of
\* their layout order), the last one pointing at `tail` (0: end of chain,
\* otherwise back into the chain), at most one of them not "good"
ChainFiles ==
    UNION {
        {ChainFile(II, 42, LE32(NodeOffset(order[1])), n, kinds,
                   [i \in 1..n |->
                        LET k == CHOOSE j \in 1..n : order[j] = i
                        IN IF k = n THEN tail ELSE order[k + 1]]) :
            order \in Permutations(1..n),
            tail \in 0..n,
            kinds \in {k \in [1..n -> NodeKinds] :
                          Cardinality({i \in 1..n : k[i] # "good"}) <= 1}}
        : n \in 1..MaxNodes}

\* ---------------------------------------------------------------------------
\* Opening a reader: COGReader::try_open (cog.rs) and the directory walk
\* ImageFileDirectories::open (ifd.rs)

Pending == [kind |-> "Pending"]
Panic == [kind |-> "Panic"]
Err == [kind |-> "Err"]
Ok(x) == [kind |-> "Ok", val |-> x]

cur == Cursor(offset, endianness, fetches)

SetCursor(c) ==
    /\ offset' = c.offset
    /\ endianness' = c.endianness
    /\ fetches' = c.log

NoDirectory == [image_width |-> 0]
NoCall == [op |-> "none"]

Init ==
    /\ file \in HeaderFiles \cup ChainFiles
    /\ pc = "read_magic"
    /\ offset = 0
    /\ endianness = "LittleEndian"
    /\ fetches = <<>>
    /\ version = None
    /\ next_ifd_offset = None
    /\ visited = <<>>
    /\ ifds = <<>>
    /\ result = Pending
    /\ ifd = NoDirectory
    /\ call = NoCall
    /\ tasks = <<>>

\* try_open lines 57-61: the magic bytes are read and asserted to be "II"
ReadMagic ==
    /\ pc = "read_magic"
    /\ LET r == read(cur, 2)
       IN /\ SetCursor(r.c)
          /\ IF r.st = "ok" /\ r.v = II
             THEN pc' = "read_version" /\ result' = result
             ELSE pc' = "panicked" /\ result' = Panic
    /\ UNCHANGED <<file, version, next_ifd_offset, visited, ifds, ifd, call, tasks>>

\* ReadVersion without the assertion on the version: the open goes on to the
\* first-IFD offset whatever the version is
ReadVersionAfterOffset ==
    /\ pc = "read_version"
    /\ LET r == read(cur, 2)
       IN /\ SetCursor(r.c)
          /\ IF r.st # "ok"
             THEN pc' = "panicked" /\ result' = Panic /\ version' = version
             ELSE /\ version' = Some(Signed(r.v))
                  /\ pc' = "read_first_ifd"
                  /\ result' = result
    /\ UNCHANGED <<file, next_ifd_offset, visited, ifds, ifd, call, tasks>>

\* try_open lines 64-71: the version is read as an i16 and asserted to be 42
ReadVersion ==
    /\ pc = "read_version"
    /\ LET r == read(cur, 2)
       IN /\ SetCursor(r.c)
          /\ IF r.st # "ok"
             THEN pc' = "panicked" /\ result' = Panic /\ version' = version
             ELSE /\ version' = Some(Signed(r.v))
                  /\ IF Signed(r.v) = 42
                     THEN pc' = "read_first_ifd" /\ result' = result
                     ELSE pc' = "panicked" /\ result' = Panic
    /\ UNCHANGED <<file, next_ifd_offset, visited, ifds, ifd, call, tasks>>

\* `x as usize` of an i32: a negative value becomes an offset past any object
i32_as_usize(x) == IF x < 0 THEN Huge ELSE x

\* try_open lines 74-80 and open line 42: the first-IFD offset is read as an
\* i32 and handed to the walk
ReadFirstIfd ==
    /\ pc = "read_first_ifd"
    /\ LET r == read(cur, 4)
       IN /\ SetCursor(r.c)
          /\ IF r.st # "ok"
             THEN pc' = "panicked" /\ result' = Panic /\ next_ifd_offset' = None
             ELSE /\ pc' = "walk"
                  /\ result' = result
                  /\ next_ifd_offset' = Some(i32_as_usize(Signed(r.v)))
    /\ UNCHANGED <<file, version, visited, ifds, ifd, call, tasks>>

\* ImageFileDirectories::open lines 45-49: one iteration of the loop
\* WalkStep collecting the directories in reverse order
WalkStepPrepend ==
    /\ pc = "walk"
    /\ IsSome(next_ifd_offset)
    /\ Len(ifds) < MaxWalk
    /\ \E r \in ImageFileDirectory_read(cur, next_ifd_offset.val) :
          /\ SetCursor(r.c)
          /\ visited' = Append(visited, next_ifd_offset.val)
          /\ IF r.st = "ok"
             THEN /\ ifds' = <<r.v>> \o ifds
                  /\ next_ifd_offset' = r.v.next_ifd_offset
                  /\ pc' = pc
                  /\ result' = result
             ELSE /\ ifds' = ifds
                  /\ next_ifd_offset' = next_ifd_offset
                  /\ pc' = IF r.st = "err" THEN "done" ELSE "panicked"
                  /\ result' = IF r.st = "err" THEN Err ELSE Panic
    /\ UNCHANGED <<file, version, ifd, call, tasks>>

\* WalkStep ending the walk at a directory that fails to decode and returning
\* the directories decoded so far
WalkStepPartial ==
    /\ pc = "walk"
    /\ IsSome(next_ifd_offset)
    /\ Len(ifds) < MaxWalk
    /\ \E r \in ImageFileDirectory_read(cur, next_ifd_offset.val) :
          /\ SetCursor(r.c)
          /\ visited' = Append(visited, next_ifd_offset.val)
          /\ IF r.st = "ok"
             THEN /\ ifds' = Append(ifds, r.v)
                  /\ next_ifd_offset' = r.v.next_ifd_offset
                  /\ pc' = pc
                  /\ result' = result
             ELSE /\ ifds' = ifds
                  /\ next_ifd_offset' = next_ifd_offset
                  /\ pc' = "done"
                  /\ result' = Ok(ifds)
    /\ UNCHANGED <<file, version, ifd, call, tasks>>

WalkStep ==
    /\ pc = "walk"
    /\ IsSome(next_ifd_offset)
    /\ Len(ifds) < MaxWalk
    /\ \E r \in ImageFileDirectory_read(cur, next_ifd_offset.val) :
          /\ SetCursor(r.c)
          /\ visited' = Append(visited, next_ifd_offset.val)
          /\ IF r.st = "ok"
             THEN /\ ifds' = Append(ifds, r.v)
                  /\ next_ifd_offset' = r.v.next_ifd_offset
                  /\ pc' = pc
                  /\ result' = result
             ELSE /\ ifds' = ifds
                  /\ next_ifd_offset' = next_ifd_offset
                  /\ pc' = IF r.st = "err" THEN "done" ELSE "panicked"
                  /\ result' = IF r.st = "err" THEN Err ELSE Panic
    /\ UNCHANGED <<file, version, ifd, call, tasks>>

\* ImageFileDirectories::open line 51 and try_open lines 82-83
WalkDone ==
    /\ pc = "walk"
    /\ ~ IsSome(next_ifd_offset)
    /\ pc' = "done"
    /\ result' = Ok(ifds)
    /\ UNCHANGED <<file, offset, endianness, fetches, version, next_ifd_offset,
                   visited, ifds, ifd, call, tasks>>

Next == ReadMagic \/ ReadVersion \/ ReadFirstIfd \/ WalkStep \/ WalkDone

Spec == Init /\ [][Next]_vars

\* ---------------------------------------------------------------------------
\* Properties of opening a reader

\* the object's bytes, read directly by position
RawU16(p) == file[p + 1] + 256 * file[p + 2]
RawU32(p) == Unsigned(SubSeq(file, p + 1, p + 4))

Range(s) == {s[i] : i \in 1..Len(s)}

BadHeader ==
    /\ Len(file) >= 4
    /\ \/ SubSeq(file, 1, 2) \notin {II, MM}
       \/ SubSeq(file, 1, 2) = II /\ RawU16(2) # 42

\* C1: opening an object whose magic is not a valid endianness magic, or whose
\* version is not 42, never gives a reader and never aborts the calling task:
\* the outcome is an error value.
C1_BadHeaderIsErrorValue == BadHeader => result.kind \in {"Pending", "Err"}

\* C2: when the version field of the header is not 42, no byte beyond the
\* four header bytes is ever requested and no directory is read.
C2_NoReadAfterBadVersion ==
    (Len(file) >= 4 /\ RawU16(2) # 42) =>
        /\ \A i \in 1..Len(fetches) : fetches[i][2] <= 4
        /\ visited = <<>>
        /\ result.kind # "Ok"

C2_Witness ==
    /\ Len(file) >= 4
    /\ SubSeq(file, 1, 4) = <<73, 73, 43, 0>>
    /\ fetches = <<<<0, 2>>, <<2, 4>>>>
    /\ result = Panic

\* the directories of the object as laid out, and the chain they form when
\* followed from the header's first-IFD field
NodeOffsets == {NodeOffset(i) : i \in {j \in 1..MaxNodes : NodeOffset(j) + NodeSize <= Len(file)}}
NextAt(o) == RawU32(o + 2 + 12 * 12)
WidthAt(o) == RawU32(o + 2 + 8)
NodeDecodes(o) == RawU16(o + 2 + 2) = 4 /\ RawU16(o + 2 + 11 * 12) = 339

RECURSIVE Chain(_, _)
Chain(o, acc) ==
    IF o \notin NodeOffsets \/ o \in Range(acc)
    THEN [seq |-> acc, end |-> o]
    ELSE Chain(NextAt(o), Append(acc, o))

ValidHeader == Len(file) >= 8 /\ SubSeq(file, 1, 2) = II /\ RawU16(2) = 42
FileChain == Chain(RawU32(4), <<>>)
IsPrefix(s, t) == Len(s) <= Len(t) /\ s = SubSeq(t, 1, Len(s))

\* C3: on an object whose directories form an acyclic chain of N nodes that
\* all decode, the walk visits the nodes in chain order, never fails, and
\* ends with exactly the N directories in chain order.
C3_ChainOrder ==
    (ValidHeader /\ FileChain.end = 0 /\ Len(FileChain.seq) >= 1
        /\ \A k \in 1..Len(FileChain.seq) : NodeDecodes(FileChain.seq[k])) =>
        /\ result.kind \in {"Pending", "Ok"}
        /\ IsPrefix(visited, FileChain.seq)
        /\ Len(ifds) = Len(visited)
        /\ \A k \in 1..Len(ifds) : ifds[k].image_width = WidthAt(FileChain.seq[k])
        /\ result.kind = "Ok" =>
              /\ result.val = ifds
              /\ visited = FileChain.seq

C3_Witness ==
    /\ result.kind = "Ok"
    /\ Len(result.val) = 3
    /\ visited = <<NodeOffset(2), NodeOffset(3), NodeOffset(1)>>
    /\ <<result.val[1].image_width, result.val[2].image_width,
          result.val[3].image_width>> = <<1024, 1536, 512>>

\* C4: a chain that leads back to a node already visited is detected: the
\* walk never reads the directory at an offset it has read before.
C4_CycleDetected ==
    \A i, j \in 1..Len(visited) : i # j => visited[i] # visited[j]

\* C5: when a node of the chain fails to decode, the open returns no
\* directories at all, and no node after the failing one is read.
C5_AllOrNothing ==
    (ValidHeader /\ \E k \in 1..Len(FileChain.seq) : ~ NodeDecodes(FileChain.seq[k])) =>
        LET k == CHOOSE j \in 1..Len(FileChain.seq) :
                    /\ ~ NodeDecodes(FileChain.seq[j])
                    /\ \A h \in 1..(j - 1) : NodeDecodes(FileChain.seq[h])
        IN /\ result.kind # "Ok"
           /\ IsPrefix(visited, SubSeq(FileChain.seq, 1, k))
           /\ Len(visited) = k => result.kind \in {"Err", "Panic"} /\ Len(ifds) = k - 1

C5_Witness ==
    /\ ValidHeader
    /\ result = Err
    /\ Len(ifds) = 2
    /\ Len(visited) = 3
    /\ ~ NodeDecodes(visited[3])

\* ---------------------------------------------------------------------------
\* Queries on a decoded directory (ifd.rs lines 507-554, geo_key_directory.rs
\* lines 316-322)

\* the quotient rounded down instead of up
FloorAsUsize(n, d) == IF d = 0 THEN (IF n = 0 THEN 0 ELSE Huge) ELSE n \div d

\* (n as f64 / d as f64).ceil() as usize for u32 operands: the quotient of two
\* u32 is rounded to a double that lies strictly between the same integers, so
\* the ceiling is the integer quotient, plus one when there is a remainder; a
\* division by zero gives NaN (cast to 0) or infinity (cast to usize::MAX)
CeilAsUsize(n, d) ==
    IF d = 0 THEN (IF n = 0 THEN 0 ELSE Huge)
    ELSE (n \div d) + (IF n % d = 0 THEN 0 ELSE 1)

\* ImageFileDirectory::tile_count, lines 516-520
tile_count(d) ==
    <<CeilAsUsize(d.image_width, d.tile_width),
      CeilAsUsize(d.image_height, d.tile_height)>>

\* ImageFileDirectory::get_tile, lines 507-513: the index is not compared with
\* the grid; indexing past a vector panics, and the body ends in todo!()
get_tile(d, x, y) ==
    LET idx == (y * tile_count(d)[1]) + x
    IN IF idx >= Len(d.tile_offsets)
       THEN [st |-> "panic", at |-> "tile_offsets", idx |-> idx, range |-> None]
       ELSE IF idx >= Len(d.tile_byte_counts)
       THEN [st |-> "panic", at |-> "tile_byte_counts", idx |-> idx, range |-> None]
       ELSE [st |-> "panic", at |-> "todo", idx |-> idx,
             range |-> Some(<<d.tile_offsets[idx + 1], d.tile_byte_counts[idx + 1]>>)]

\* AffineTransform::new and its accessors (affine.rs): the six coefficients
AffineTransform_new(a, b, xoff, d, e, yoff) == <<a, b, xoff, d, e, yoff>>

\* ImageFileDirectory::geotransform, lines 525-540: indexing a vector that is
\* too short panics
geotransform(d) ==
    IF IsSome(d.model_pixel_scale) /\ IsSome(d.model_tiepoint)
    THEN LET model_pixel_scale == d.model_pixel_scale.val
             model_tiepoint == d.model_tiepoint.val
         IN IF Len(model_pixel_scale) < 2 \/ Len(model_tiepoint) < 5
            THEN R("panic", 0)
            ELSE R("ok", Some(AffineTransform_new(
                        model_pixel_scale[1], 0, model_tiepoint[4],
                        0, 0 - model_pixel_scale[2], model_tiepoint[5])))
    ELSE R("ok", None)

\* ImageFileDirectory::native_bounds, lines 543-554
NativeBoundsOf(gt, d) ==
    LET tlx == gt[3]
        tly == gt[6]
        brx == tlx + (gt[1] * d.image_width)
        bry == tly + (gt[5] * d.image_height)
    IN <<tlx, bry, brx, tly>>

native_bounds(d) ==
    LET gt == geotransform(d)
    IN IF gt.st # "ok" THEN gt
       ELSE IF IsSome(gt.v) THEN R("ok", Some(NativeBoundsOf(gt.v.val, d)))
       ELSE R("ok", None)

\* the geographic key looked up before the projected one
GeographicFirst(g) ==
    IF 2048 \in DOMAIN g THEN Some(g[2048])
    ELSE IF 3072 \in DOMAIN g THEN Some(g[3072])
    ELSE None

\* GeoKeyDirectory::epsg_code, lines 316-322 (projected_type is key 3072,
\* geographic_type key 2048)
epsg_code(g) ==
    IF 3072 \in DOMAIN g THEN Some(g[3072])
    ELSE IF 2048 \in DOMAIN g THEN Some(g[2048])
    ELSE None

\* ---------------------------------------------------------------------------
\* The directories the queries are asked of: each is what from_tags makes of
\* a tag map

Shorts(ns) == Val("List", [i \in 1..Len(ns) |-> Val("Short", ns[i])])
Doubles(ns) ==
    IF Len(ns) = 1 THEN Val("Double", ns[1])
    ELSE Val("List", [i \in 1..Len(ns) |-> Val("Double", ns[i])])
Longs(ns) ==
    IF Len(ns) = 1 THEN Val("Unsigned", ns[1])
    ELSE Val("List", [i \in 1..Len(ns) |-> Val("Unsigned", ns[i])])

\* the twelve required tags of a tiled image of w x h pixels in tw x th tiles,
\* with one offset and one byte count per tile
GridTags(w, h, tw, th) ==
    LET n == CeilAsUsize(w, tw) * CeilAsUsize(h, th)
    IN (256 :> Val("Unsigned", w)) @@ (257 :> Val("Unsigned", h))
       @@ (258 :> Val("Short", 8)) @@ (259 :> Val("Short", 8))
       @@ (262 :> Val("Short", 1)) @@ (277 :> Val("Short", 1))
       @@ (284 :> Val("Short", 1))
       @@ (322 :> Val("Unsigned", tw)) @@ (323 :> Val("Unsigned", th))
       @@ (324 :> Longs([i \in 1..n |-> 1000 * i]))
       @@ (325 :> Longs([i \in 1..n |-> 100 + i]))
       @@ (339 :> Val("Short", 1))

Optional(code, o, mk(_)) == IF IsSome(o) THEN code :> mk(o.val) ELSE <<>>

PixelScales ==
    {None, Some(<<>>), Some(<<10>>), Some(<<10, 10, 0>>), Some(<<10, 0 - 10, 0>>),
     Some(<<0 - 2, 3, 0>>)}

Tiepoints ==
    {None, Some(<<>>), Some(<<0, 0, 0>>), Some(<<0, 0, 0, 500000, 4000000, 0>>),
     Some(<<0, 0, 0, 0 - 180, 90, 0>>)}

\* GeoKey directories: a header and one 4-short record per key
GeoKeySets ==
    {None, Some(<<1, 1, 0, 0>>),
     Some(<<1, 1, 0, 1, 3072, 0, 1, 32631>>),
     Some(<<1, 1, 0, 1, 2048, 0, 1, 4326>>),
     Some(<<1, 1, 0, 2, 2048, 0, 1, 4326, 3072, 0, 1, 32631>>),
     Some(<<1, 1, 0, 2, 1024, 0, 1, 1, 3072, 0, 1, 32633>>)}

\* the directories from_tags makes of a tag map
Decoded(tags) == {r.v : r \in {q \in from_tags(tags, None) : q.st = "ok"}}

QueryDirectories ==
    UNION ({Decoded(GridTags(w, h, tw, th)) :
                w \in 0..MaxSide, h \in 0..MaxSide, tw \in 1..MaxTile, th \in 1..MaxTile}
           \cup {Decoded(GridTags(w, h, 256, 256)) :
                w \in {255, 256, 257, 1000}, h \in {256, 1000}}
           \cup {Decoded(GridTags(100, 100, 256, 256) @@ Optional(33550, s, Doubles)
                         @@ Optional(33922, t, Doubles) @@ Optional(34735, g, Shorts)) :
                s \in PixelScales, t \in Tiepoints, g \in GeoKeySets})

InitQuery ==
    /\ ifd \in QueryDirectories
    /\ pc = "ready"
    /\ call = NoCall
    /\ file = <<>>
    /\ offset = 0
    /\ endianness = "LittleEndian"
    /\ fetches = <<>>
    /\ version = None
    /\ next_ifd_offset = None
    /\ visited = <<>>
    /\ ifds = <<>>
    /\ result = Pending
    /\ tasks = <<>>

Rest == <<file, pc, offset, endianness, fetches, version, next_ifd_offset,
          visited, ifds, result, ifd, tasks>>

CallTileCount ==
    /\ pc = "ready"
    /\ call' = [op |-> "tile_count", out |-> R("ok", tile_count(ifd))]
    /\ UNCHANGED Rest

CallGetTile ==
    /\ pc = "ready"
    /\ \E x \in 0..MaxXY, y \in 0..MaxXY :
          call' = [op |-> "get_tile", x |-> x, y |-> y, out |-> get_tile(ifd, x, y)]
    /\ UNCHANGED Rest

CallGeotransform ==
    /\ pc = "ready"
    /\ call' = [op |-> "geotransform", out |-> geotransform(ifd)]
    /\ UNCHANGED Rest

CallNativeBounds ==
    /\ pc = "ready"
    /\ call' = [op |-> "native_bounds", out |-> native_bounds(ifd)]
    /\ UNCHANGED Rest

CallEpsgCode ==
    /\ pc = "ready"
    /\ IsSome(ifd.geo_key_directory)
    /\ call' = [op |-> "epsg_code", out |-> R("ok", epsg_code(ifd.geo_key_directory.val))]
    /\ UNCHANGED Rest

NextQuery ==
    CallTileCount \/ CallGetTile \/ CallGeotransform \/ CallNativeBounds \/ CallEpsgCode

SpecQuery == InitQuery /\ [][NextQuery]_vars

\* ---------------------------------------------------------------------------
\* Properties of the queries

\* C6: get_tile(x, y) with x or y beyond the tile grid ends in an out-of-range
\* error: it does not panic and does not resolve to the byte range of a tile.
C6_OutOfRangeIsError ==
    (call.op = "get_tile"
        /\ (call.x >= tile_count(ifd)[1] \/ call.y >= tile_count(ifd)[2])) =>
        /\ call.out.st = "err"
        /\ call.out.range = None

\* C7: epsg_code gives the projected-CRS key whenever it is present, the
\* geographic-CRS key when only that one is present, and no code otherwise.
C7_EpsgPreference ==
    call.op = "epsg_code" =>
        LET g == ifd.geo_key_directory.val
        IN /\ 3072 \in DOMAIN g => call.out.v = Some(g[3072])
           /\ (3072 \notin DOMAIN g /\ 2048 \in DOMAIN g) => call.out.v = Some(g[2048])
           /\ (3072 \notin DOMAIN g /\ 2048 \notin DOMAIN g) => call.out.v = None

C7_Witness ==
    /\ call.op = "epsg_code"
    /\ DOMAIN ifd.geo_key_directory.val = {2048, 3072}
    /\ ifd.geo_key_directory.val[2048] = 4326
    /\ call.out.v = Some(32631)

\* C8: with tile sides of at least 1, tile_count is the exact integer ceiling
\* of width / tile_width and of height / tile_height.
C8_TileCountIsCeiling ==
    (call.op = "tile_count" /\ ifd.tile_width >= 1 /\ ifd.tile_height >= 1) =>
        call.out.v = <<(ifd.image_width + ifd.tile_width - 1) \div ifd.tile_width,
                       (ifd.image_height + ifd.tile_height - 1) \div ifd.tile_height>>

C8_Witness ==
    /\ call.op = "tile_count"
    /\ <<ifd.image_width, ifd.image_height>> = <<1000, 1000>>
    /\ <<ifd.tile_width, ifd.tile_height>> = <<256, 256>>
    /\ call.out.v = <<4, 4>>

\* C9: geotransform yields a transform exactly when ModelPixelScale and
\* ModelTiepoint are both present, with the coefficients (scale[0], 0,
\* tiepoint[3], 0, -scale[1], tiepoint[4]); when either is absent geotransform
\* and native_bounds both give None.
C9_TransformIffBothTags ==
    LET both == IsSome(ifd.model_pixel_scale) /\ IsSome(ifd.model_tiepoint)
    IN /\ call.op = "geotransform" =>
            /\ both <=> (call.out.st = "ok" /\ IsSome(call.out.v))
            /\ ~ both => call.out = R("ok", None)
       /\ (call.op = "native_bounds" /\ ~ both) => call.out = R("ok", None)

\* C10: the bounds native_bounds gives are ordered, min_x <= max_x and
\* min_y <= max_y, whatever the sign of the pixel scales.
C10_BoundsAreOrdered ==
    (call.op = "native_bounds" /\ call.out.st = "ok" /\ IsSome(call.out.v)) =>
        /\ call.out.v.val[1] <= call.out.v.val[3]
        /\ call.out.v.val[2] <= call.out.v.val[4]

\* ---------------------------------------------------------------------------
\* The cursor on its own (cursor.rs): reads, scalar reads, seek and advance in
\* any order on a small object

CursorObjects == {<<>>, <<1, 2, 3, 4, 5>>, <<1, 2, 3, 4, 5, 6, 7, 8, 9, 10, 11, 12>>}

ScalarKinds ==
    {"read_u8", "read_i8", "read_u16", "read_i16", "read_u32", "read_i32",
     "read_u64", "read_i64", "read_f32", "read_f64"}

\* the scalar read methods by name
ScalarRead(kind, c) ==
    CASE kind = "read_u8" -> read_u8(c)
      [] kind = "read_i8" -> read_i8(c)
      [] kind = "read_u16" -> read_u16(c)
      [] kind = "read_i16" -> read_i16(c)
      [] kind = "read_u32" -> read_u32(c)
      [] kind = "read_i32" -> read_i32(c)
      [] kind = "read_u64" -> read_u64(c)
      [] kind = "read_i64" -> read_i64(c)
      [] kind = "read_f32" -> read_f32(c)
      [] kind = "read_f64" -> read_f64(c)

\* ObjectStoreCursor::new, lines 40-47
InitCursor ==
    /\ file \in CursorObjects
    /\ pc = "cursor"
    /\ offset = 0
    /\ endianness = "LittleEndian"
    /\ fetches = <<>>
    /\ call = NoCall
    /\ version = None
    /\ next_ifd_offset = None
    /\ visited = <<>>
    /\ ifds = <<>>
    /\ result = Pending
    /\ ifd = NoDirectory
    /\ tasks = <<>>

CursorRest == <<file, version, next_ifd_offset, visited, ifds, result, ifd, tasks>>

\* the outcome r of a cursor operation becomes the state
AfterCursorOp(op, arg, r) ==
    /\ SetCursor(r.c)
    /\ call' = [op |-> op, arg |-> arg, st |-> r.st]
    /\ pc' = IF r.st = "ok" THEN pc ELSE "panicked"
    /\ UNCHANGED CursorRest

CursorRead ==
    /\ pc = "cursor"
    /\ Len(fetches) < MaxOps
    /\ \E n \in 0..MaxRead : AfterCursorOp("read", n, read(cur, n))

CursorReadScalar ==
    /\ pc = "cursor"
    /\ Len(fetches) < MaxOps
    /\ \E kind \in ScalarKinds : AfterCursorOp(kind, 0, ScalarRead(kind, cur))

CursorSeek ==
    /\ pc = "cursor"
    /\ \E o \in 0..MaxSeek : AfterCursorOp("seek", o, Ret("ok", seek(cur, o), 0))

CursorAdvance ==
    /\ pc = "cursor"
    /\ offset <= MaxSeek
    /\ \E k \in 0..MaxRead : AfterCursorOp("advance", k, Ret("ok", advance(cur, k), 0))

NextCursor == CursorRead \/ CursorReadScalar \/ CursorSeek \/ CursorAdvance

SpecCursor == InitCursor /\ [][NextCursor]_vars

\* ---------------------------------------------------------------------------
\* Properties of the cursor

WireWidth(kind) ==
    CASE kind \in {"read_u8", "read_i8"} -> 1
      [] kind \in {"read_u16", "read_i16"} -> 2
      [] kind \in {"read_u32", "read_i32", "read_f32"} -> 4
      [] kind \in {"read_u64", "read_i64", "read_f64"} -> 8

\* C11: read(n) at offset p requests exactly [p, p+n) and leaves the cursor at
\* p+n; a scalar read is one such read of the type's wire width; seek(o) sets
\* the offset to o and advance(k) adds k, both without a fetch.
C11_CursorContract ==
    [][(pc = "cursor" /\ call'.op # "none") =>
         LET p == offset
             op == call'.op
             arg == call'.arg
         IN /\ op = "read" =>
                  fetches' = Append(fetches, <<p, p + arg>>) /\ offset' = p + arg
            /\ op \in ScalarKinds =>
                  /\ fetches' = Append(fetches, <<p, p + WireWidth(op)>>)
                  /\ offset' = p + WireWidth(op)
            /\ op = "seek" => offset' = arg /\ fetches' = fetches
            /\ op = "advance" => offset' = p + arg /\ fetches' = fetches]_vars

C11_Witness ==
    /\ pc = "cursor"
    /\ call.op = "read_f64"
    /\ call.st = "ok"
    /\ Len(fetches) = 2
    /\ fetches[2] = <<offset - 8, offset>>
    /\ fetches[2][1] > fetches[1][2]

\* C12: a range the store cannot serve makes the read that asked for it end
\* in an error value given to the caller (no retry, no further decoding).
C12_StoreFailureIsError ==
    (call.op \in ScalarKinds \cup {"read"}
        /\ fetches[Len(fetches)][2] > Len(file)) =>
        /\ call.st = "err"
        /\ \A i \in 1..(Len(fetches) - 1) : fetches[i] # fetches[Len(fetches)]

\* ---------------------------------------------------------------------------
\* get_tile called from several tasks on one directory (ifd.rs lines 507-513).
\* A call holds only &self and its own locals; its statements interleave with
\* those of the other calls.

Tasks == 1..NTasks

TileDirectories ==
    UNION {Decoded(GridTags(w, h, 1, 1)) : w \in 1..2, h \in 1..2}

NewTask(x, y) ==
    [pc |-> "start", x |-> x, y |-> y, idx |-> 0, offset |-> 0, byte_count |-> 0]

InitTiles ==
    /\ ifd \in TileDirectories
    /\ tasks \in [Tasks -> {NewTask(x, y) : x \in 0..2, y \in 0..1}]
    /\ pc = "ready"
    /\ call = NoCall
    /\ file = <<>>
    /\ offset = 0
    /\ endianness = "LittleEndian"
    /\ fetches = <<>>
    /\ version = None
    /\ next_ifd_offset = None
    /\ visited = <<>>
    /\ ifds = <<>>
    /\ result = Pending

TilesRest == <<file, pc, offset, endianness, fetches, version, next_ifd_offset,
               visited, ifds, result, ifd, call>>

\* a variant of TileIndex that parks the index in the reader's cursor
TileIndexInCursor ==
    /\ \E t \in Tasks :
          /\ tasks[t].pc = "start"
          /\ offset' = (tasks[t].y * tile_count(ifd)[1]) + tasks[t].x
          /\ tasks' = [tasks EXCEPT ![t].pc = "have_idx", ![t].idx = offset']
    /\ UNCHANGED <<file, pc, endianness, fetches, version, next_ifd_offset,
                   visited, ifds, result, ifd, call>>

\* line 508: let idx = (y * self.tile_count().0) + x
TileIndex ==
    /\ \E t \in Tasks :
          /\ tasks[t].pc = "start"
          /\ tasks' = [tasks EXCEPT ![t].pc = "have_idx",
                           ![t].idx = (tasks[t].y * tile_count(ifd)[1]) + tasks[t].x]
    /\ UNCHANGED TilesRest

\* line 509: let offset = self.tile_offsets[idx]
TileOffset ==
    /\ \E t \in Tasks :
          /\ tasks[t].pc = "have_idx"
          /\ tasks' = IF tasks[t].idx >= Len(ifd.tile_offsets)
                      THEN [tasks EXCEPT ![t].pc = "panicked"]
                      ELSE [tasks EXCEPT ![t].pc = "have_offset",
                                ![t].offset = ifd.tile_offsets[tasks[t].idx + 1]]
    /\ UNCHANGED TilesRest

\* line 511: let byte_count = self.tile_byte_counts[idx]
TileByteCount ==
    /\ \E t \in Tasks :
          /\ tasks[t].pc = "have_offset"
          /\ tasks' = IF tasks[t].idx >= Len(ifd.tile_byte_counts)
                      THEN [tasks EXCEPT ![t].pc = "panicked"]
                      ELSE [tasks EXCEPT ![t].pc = "have_range",
                                ![t].byte_count = ifd.tile_byte_counts[tasks[t].idx + 1]]
    /\ UNCHANGED TilesRest

\* line 512: todo!()
TileTodo ==
    /\ \E t \in Tasks :
          /\ tasks[t].pc = "have_range"
          /\ tasks' = [tasks EXCEPT ![t].pc = "panicked"]
    /\ UNCHANGED TilesRest

NextTiles == TileIndex \/ TileOffset \/ TileByteCount \/ TileTodo

SpecTiles == InitTiles /\ [][NextTiles]_vars

\* C13: in every interleaving of concurrent get_tile calls, no step changes
\* the directory or touches a cursor, a step of one call leaves the other
\* calls' state alone, and the range a call resolves is the one its own
\* (directory, x, y) determines.
C13_TileCallsIndependent ==
    [][/\ ifd' = ifd
       /\ offset' = offset
       /\ fetches' = fetches
       /\ \A t \in DOMAIN tasks :
             /\ tasks'[t] # tasks[t] => \A u \in DOMAIN tasks \ {t} : tasks'[u] = tasks[u]
             /\ tasks'[t].pc = "have_range" =>
                   LET idx == (tasks[t].y * ifd.image_width) + tasks[t].x
                   IN /\ tasks'[t].offset = 1000 * (idx + 1)
                      /\ tasks'[t].byte_count = 100 + (idx + 1)]_vars

C13_Witness ==
    /\ DOMAIN tasks = Tasks
    /\ tasks[1].pc = "have_range"
    /\ tasks[2].pc = "have_offset"
    /\ <<tasks[1].x, tasks[1].y>> = <<1, 0>>
    /\ <<tasks[2].x, tasks[2].y>> = <<0, 1>>
    /\ tasks[1].offset # tasks[2].offset

\* ---------------------------------------------------------------------------
\* Properties of the directories the open returns

\* C14: every directory of a successful open has as many tile offsets as tile
\* byte counts, and as many as the tiles of its grid.
C14_TileVectorsMatchGrid ==
    result.kind = "Ok" =>
        \A k \in 1..Len(result.val) :
            LET d == result.val[k]
                grid == ((d.image_width + d.tile_width - 1) \div d.tile_width)
                        * ((d.image_height + d.tile_height - 1) \div d.tile_height)
            IN /\ Len(d.tile_offsets) = Len(d.tile_byte_counts)
               /\ Len(d.tile_offsets) = grid

\* C15: a directory whose tag table lacks a required tag (here SampleFormat,
\* the last record of the directories of the model) makes the decoding fail
\* with an error value, not a crash.
C15_MissingRequiredTagIsError ==
    \A i \in 1..Len(visited) :
        (visited[i] \in NodeOffsets /\ RawU16(visited[i] + 2 + 11 * 12) # 339) =>
            result.kind = "Err"

\* ---------------------------------------------------------------------------
\* Reading one directory record by record (ImageFileDirectory::read, lines
\* 156-179, without from_tags): a directory of two records at TagDir, the
\* first of any code, type, count and value field, followed by a data area

TagDir == 8
TagCount == 2
DataStart == TagDir + 2 + (12 * TagCount) + 4

TagCodes == {256, 65000}
TagTypes == (0..14) \cup {16, 17, 18}

\* value fields: a pointer to the data area, four bytes of text with and
\* without NULs, zeros, and a pointer past the object
ValueFields ==
    {LE32(DataStart), <<65, 0, 66, 0>>, <<0, 65, 66, 0>>, <<65, 66, 67, 0>>,
     <<65, 66, 67, 68>>, <<0, 0, 0, 0>>, <<200, 0, 0, 0>>}

\* data areas of 8 * MaxCount bytes: text with a NUL inside, text without NUL,
\* counting bytes, and bytes that are not UTF-8
DataAreas ==
    {[i \in 1..(8 * MaxCount) |-> IF i % 3 = 0 THEN 0 ELSE 64 + i],
     [i \in 1..(8 * MaxCount) |-> 64 + i],
     [i \in 1..(8 * MaxCount) |-> i],
     [i \in 1..(8 * MaxCount) |-> IF i = 2 THEN 200 ELSE 65]}

TagFile(code, ty, count, field, data) ==
    II \o LE16(42) \o LE32(TagDir) \o LE16(TagCount)
    \o TagRec(code, ty, count, field) \o TagRec(257, 4, 1, LE32(7))
    \o LE32(0) \o data

InitTag ==
    /\ file \in {TagFile(code, ty, count, field, data) :
                    code \in TagCodes, ty \in TagTypes, count \in 0..MaxCount,
                    field \in ValueFields, data \in DataAreas}
    /\ pc = "tag_count"
    /\ offset = 0
    /\ endianness = "LittleEndian"
    /\ fetches = <<>>
    /\ call = NoCall
    /\ version = None
    /\ next_ifd_offset = None
    /\ visited = <<>>
    /\ ifds = <<>>
    /\ result = Pending
    /\ ifd = NoDirectory
    /\ tasks = <<>>

TagRest == <<file, version, ifds, result, ifd, tasks>>

\* lines 157-159: seek to the directory and read the tag count
ReadTagCount ==
    /\ pc = "tag_count"
    /\ LET r == read_u16(seek(cur, TagDir))
       IN /\ SetCursor(r.c)
          /\ pc' = IF r.st = "ok" THEN "tags" ELSE "panicked"
          /\ call' = [op |-> "tag_count", st |-> r.st, v |-> r.v]
    /\ UNCHANGED <<next_ifd_offset, visited>>
    /\ UNCHANGED TagRest

\* lines 164-167: one turn of the loop, read_tag at the cursor
ReadTagStep ==
    /\ pc = "tags"
    /\ Len(visited) < TagCount
    /\ LET r == read_tag(cur)
       IN /\ SetCursor(r.c)
          /\ visited' = Append(visited, offset)
          /\ pc' = CASE r.st = "ok" -> pc
                     [] r.st = "err" -> "failed"
                     [] r.st = "panic" -> "panicked"
          /\ call' = [op |-> "read_tag", st |-> r.st, v |-> r.v]
    /\ UNCHANGED next_ifd_offset
    /\ UNCHANGED TagRest

\* lines 172-178: seek past the table and read the next-IFD offset
ReadNextOffset ==
    /\ pc = "tags"
    /\ Len(visited) = TagCount
    /\ LET r == read_u32(seek(cur, TagDir + (12 * TagCount) + 2))
       IN /\ SetCursor(r.c)
          /\ pc' = IF r.st = "ok" THEN "tag_done" ELSE "panicked"
          /\ next_ifd_offset' = IF r.st = "ok" /\ r.v # 0 THEN Some(r.v) ELSE None
          /\ call' = [op |-> "next_ifd_offset", st |-> r.st, v |-> r.v]
    /\ UNCHANGED visited
    /\ UNCHANGED TagRest

NextTag == ReadTagCount \/ ReadTagStep \/ ReadNextOffset

SpecTag == InitTag /\ [][NextTag]_vars

\* ---------------------------------------------------------------------------
\* Properties of reading tag records

\* the first record of the directory as laid out
RecStart == TagDir + 2
RecType == Type_from_u16(RawU16(RecStart + 2))
RecCount == RawU32(RecStart + 4)
RecField == RawU32(RecStart + 8)
RecWidth ==
    IF RecType.val \in {"BYTE", "SBYTE", "ASCII", "UNDEFINED"} THEN 1
    ELSE IF RecType.val \in {"SHORT", "SSHORT"} THEN 2
    ELSE IF RecType.val \in {"LONG", "SLONG", "FLOAT", "IFD"} THEN 4
    ELSE 8
RecInline == IsSome(RecType) /\ RecCount * RecWidth <= 4

\* C16: whatever the code, type, count and layout of a record, a successful
\* read_tag leaves the cursor 12 bytes after the record's start, so record i
\* of the directory at D is read at D + 2 + 12 i and the next-IFD offset at
\* D + 2 + 12 N.
C16_RecordStride ==
    /\ \A i \in 1..Len(visited) : visited[i] = TagDir + 2 + (12 * (i - 1))
    /\ (call.op = "read_tag" /\ call.st = "ok") =>
            offset = visited[Len(visited)] + 12
    /\ call.op = "next_ifd_offset" =>
            fetches[Len(fetches)] = <<TagDir + 2 + (12 * TagCount),
                                      TagDir + 2 + (12 * TagCount) + 4>>

C16_Witness ==
    /\ Len(visited) = 2
    /\ call.op = "read_tag"
    /\ call.st = "ok"
    /\ \E i \in 1..Len(fetches) : fetches[i][1] >= DataStart
    /\ offset = TagDir + 2 + 24

\* C17: a record of a valid type whose values take at most 4 bytes (also one
\* with no value) is decoded without leaving its own 12 bytes: every range
\* requested while reading it lies in [s, s+12), and so does the cursor.
C17_InlineWithinRecord ==
    (RecInline /\ Len(visited) = 1) =>
        /\ \A i \in 2..Len(fetches) :
              fetches[i][1] >= RecStart /\ fetches[i][2] <= RecStart + 12
        /\ offset >= RecStart /\ offset <= RecStart + 12

C17_Witness ==
    /\ RawU16(RecStart + 2) = 3
    /\ RecCount = 2
    /\ Len(visited) = 1
    /\ call.op = "read_tag"
    /\ call.st = "ok"
    /\ Len(fetches) = 5
    /\ fetches[5] = <<RecStart + 8, RecStart + 12>>

\* C18: a record of a valid type whose values take more than 4 bytes (a single
\* 8-byte value included) is decoded from the offset p held in its value
\* field: every range requested after the value field lies in
\* [p, p + count * width), the ranges follow one another from p, and a
\* successful decoding has requested exactly [p, p + count * width) and
\* yields count elements, bytes in the order of the object.
RecPointed == IsSome(RecType) /\ RecCount * RecWidth > 4

C18_PointedReadsExactly ==
    (RecPointed /\ Len(visited) = 1) =>
        LET n == Len(fetches)
            end == RecField + (RecCount * RecWidth)
        IN /\ n >= 5
           /\ fetches[5][1] = RecStart + 8
           /\ \A i \in 6..n : fetches[i][1] >= RecField /\ fetches[i][2] <= end
           /\ n >= 6 => fetches[6][1] = RecField
           /\ \A i \in 6..(n - 1) : fetches[i + 1][1] = fetches[i][2]
           /\ call.st = "ok" =>
                /\ n >= 6
                /\ fetches[n][2] = end
                /\ (RecCount > 1 /\ RecType.val # "ASCII") =>
                        /\ call.v.value.t = "List"
                        /\ Len(call.v.value.v) = RecCount
                /\ (RecCount > 1 /\ RecType.val = "BYTE") =>
                        \A i \in 1..RecCount :
                            call.v.value.v[i] = Val("Byte", file[RecField + i])
                /\ (RecCount = 1) => call.v.value.t # "List"

C18_Witness ==
    /\ RawU16(RecStart + 2) = 3
    /\ RecCount = 3
    /\ RecField = DataStart
    /\ Len(visited) = 1
    /\ call.op = "read_tag"
    /\ call.st = "ok"
    /\ Len(fetches) = 8
    /\ fetches[8] = <<DataStart + 4, DataStart + 6>>

\* C19: an ASCII record of any layout decodes to the bytes before the first
\* NUL of its count bytes, and decoding is an error value when the count bytes
\* (all of them 7-bit) hold no NUL at all.
AsciiAt == IF RecCount <= 4 THEN RecStart + 8 ELSE RecField
AsciiBytes == SubSeq(file, AsciiAt + 1, AsciiAt + RecCount)

C19_AsciiUpToFirstNul ==
    (/\ IsSome(RecType) /\ RecType.val = "ASCII"
     /\ RecCount >= 1
     /\ AsciiAt + RecCount <= Len(file)
     /\ IsAscii(AsciiBytes)
     /\ Len(visited) = 1) =>
        IF \E i \in 1..RecCount : AsciiBytes[i] = 0
        THEN /\ call.st = "ok"
             /\ call.v.value = Val("Ascii", TruncateAtNul(AsciiBytes))
        ELSE call.st = "err"

\* C20: the byte order is taken from the magic: once the magic of an object
\* starting with "MM" has been read, the cursor decodes big-endian and the
\* open goes on, as it does little-endian for "II".
C20_ByteOrderFromMagic ==
    (pc # "read_magic" /\ Len(file) >= 2) =>
        /\ SubSeq(file, 1, 2) = MM =>
                endianness = "BigEndian" /\ pc # "panicked"
        /\ SubSeq(file, 1, 2) = II => endianness = "LittleEndian"

\* ---------------------------------------------------------------------------
\* Decoding directories and classifying them (ifd.rs lines 185-505): objects
\* of one or two directories whose records differ in the enumerated tags, in
\* NewSubfileType, in an unmodelled tag and in the GeoKey tags, walked as
\* try_open hands them to ImageFileDirectories::open.

\* ImageFileDirectory::is_masked with one of the three conditions sufficing
IsMaskedByAnyOne(d) ==
    IF IsSome(d.new_subfile_type)
    THEN (d.new_subfile_type.val = 1 \/ d.new_subfile_type.val = 2)
         \/ d.photometric_interpretation = 4
         \/ d.compression = 8
    ELSE FALSE

\* ImageFileDirectory::is_masked, lines 434-442 (TransparencyMask is code 4 of
\* PhotometricInterpretation, Deflate code 8 of CompressionMethod)
is_masked(d) ==
    IF IsSome(d.new_subfile_type)
    THEN (d.new_subfile_type.val = 1 \/ d.new_subfile_type.val = 2)
         /\ d.photometric_interpretation = 4
         /\ d.compression = 8
    ELSE FALSE

\* ImageFileDirectory::is_full_resolution, lines 499-505
is_full_resolution(d) ==
    IF IsSome(d.new_subfile_type) THEN d.new_subfile_type.val # 0 ELSE TRUE

\* the twelve required records with the given Compression and
\* PhotometricInterpretation codes
DirRecs(comp, photo) ==
    << TagRec(256, 4, 1, LE32(512)),
       TagRec(257, 4, 1, LE32(512)),
       TagRec(258, 3, 1, LE32(8)),
       TagRec(259, 3, 1, LE32(comp)),
       TagRec(262, 3, 1, LE32(photo)),
       TagRec(277, 3, 1, LE32(1)),
       TagRec(284, 3, 1, LE32(1)),
       TagRec(322, 3, 1, LE32(512)),
       TagRec(323, 3, 1, LE32(512)),
       TagRec(324, 4, 1, LE32(1000)),
       TagRec(325, 4, 1, LE32(100)),
       TagRec(339, 3, 1, LE32(1)) >>

\* an optional record of one inline value
OptRec(code, ty, o) == IF IsSome(o) THEN <<TagRec(code, ty, 1, LE32(o.val))>> ELSE <<>>

\* an object of directories laid out back to back from offset 8 and chained
\* in that order, followed by the data their records point at
RECURSIVE DirsBytes(_, _)
DirsBytes(dirs, at) ==
    IF dirs = <<>> THEN <<>>
    ELSE LET size == 2 + (12 * Len(Head(dirs))) + 4
         IN NodeBytes(Head(dirs), IF Len(dirs) = 1 THEN 0 ELSE at + size)
            \o DirsBytes(Tail(dirs), at + size)

DirsFile(dirs, data) == II \o LE16(42) \o LE32(8) \o DirsBytes(dirs, 8) \o data

\* where the data starts in an object of two directories of n1 and n2 records
DataBase(n1, n2) == 8 + (2 + (12 * n1) + 4) + (2 + (12 * n2) + 4)

\* the bytes of the double of a non-negative integer below 2^28, least
\* significant byte first
RECURSIVE Log2(_)
Log2(n) == IF n <= 1 THEN 0 ELSE 1 + Log2(n \div 2)

D64(n) ==
    IF n = 0 THEN <<0, 0, 0, 0, 0, 0, 0, 0>>
    ELSE LET e == Log2(n)
             exp == e + 1023
             m28 == (n - Pow2(e)) * Pow2(28 - e)
         IN <<0, 0, 0, m28 % 256, (m28 \div 256) % 256, (m28 \div 65536) % 256,
              ((exp % 16) * 16) + (m28 \div Pow2(24)), exp \div 16>>

\* the characters of "WGS 84|"
WGS84 == <<87, 71, 83, 32, 56, 52, 124>>

\* GeoKey tags of a directory: the key shorts, the side string (NUL
\* terminated on disk) and the side doubles, each an Option
GeoTags(keys, ascii, doubles) == [keys |-> keys, ascii |-> ascii, doubles |-> doubles]

OptLen(o) == IF IsSome(o) THEN Len(o.val) ELSE 0

\* the data the three tags point at, laid out in that order
GeoData(g) ==
    (IF IsSome(g.keys) THEN Flatten([i \in 1..Len(g.keys.val) |-> LE16(g.keys.val[i])])
     ELSE <<>>)
    \o (IF IsSome(g.ascii) THEN g.ascii.val ELSE <<>>)
    \o (IF IsSome(g.doubles)
        THEN Flatten([i \in 1..Len(g.doubles.val) |-> D64(g.doubles.val[i])])
        ELSE <<>>)

\* the records of the three tags, by tag code
GeoRec(base, g, code) ==
    CASE code = 34735 ->
            IF IsSome(g.keys) THEN <<TagRec(34735, 3, Len(g.keys.val), LE32(base))>> ELSE <<>>
      [] code = 34737 ->
            IF IsSome(g.ascii)
            THEN <<TagRec(34737, 2, Len(g.ascii.val), LE32(base + (2 * OptLen(g.keys))))>>
            ELSE <<>>
      [] code = 34736 ->
            IF IsSome(g.doubles)
            THEN <<TagRec(34736, 12, Len(g.doubles.val),
                          LE32(base + (2 * OptLen(g.keys)) + OptLen(g.ascii)))>>
            ELSE <<>>

GeoCount(g) ==
    (IF IsSome(g.keys) THEN 1 ELSE 0) + (IF IsSome(g.ascii) THEN 1 ELSE 0)
    + (IF IsSome(g.doubles) THEN 1 ELSE 0)

GeoVariants ==
    { GeoTags(Some(<<1, 1, 0, 3, 3072, 0, 1, 32631, 1026, 34737, 7, 0, 2057, 34736, 1, 1>>),
              Some(WGS84 \o <<0>>), Some(<<10, 20>>)),
      GeoTags(Some(<<1, 1, 0, 1, 1026, 34737, 7, 0>>), None, Some(<<10, 20>>)),
      GeoTags(Some(<<1, 1, 0, 1, 2058, 34736, 2, 0>>), Some(WGS84 \o <<0>>), Some(<<10, 20>>)),
      GeoTags(Some(<<1, 1, 0, 2, 2048, 0, 1, 4326, 2057, 34736, 1, 0>>), None, Some(<<30>>)),
      GeoTags(Some(<<2, 1, 0, 1, 2048, 0, 1, 4326>>), Some(WGS84 \o <<0>>), None),
      GeoTags(None, Some(WGS84 \o <<0>>), Some(<<10, 20>>)) }

\* the orders the records of a directory are laid out in: the three GeoKey
\* tags in any order, before or after the required tags
GeoOrders == {<<front, o>> : front \in BOOLEAN, o \in Permutations({34735, 34736, 34737})}

OrderedRecs(base, g, order) ==
    LET o == order[2]
        first == CHOOSE c \in DOMAIN o : o[c] = 34735
        second == CHOOSE c \in DOMAIN o : o[c] = 34736
        third == CHOOSE c \in DOMAIN o : o[c] = 34737
        geo == GeoRec(base, g, first) \o GeoRec(base, g, second) \o GeoRec(base, g, third)
    IN IF order[1] THEN geo \o DirRecs(8, 1) ELSE DirRecs(8, 1) \o geo

\* records of tag codes the decoder has no field for (65000 is unknown to the
\* tag enumeration, 266 is FillOrder): an inline short, two longs and a string
\* behind a pointer
UnmodelledRecs(base) ==
    {TagRec(code, 3, 1, LE32(7)) : code \in {65000, 266}}
    \cup {TagRec(65000, 4, 2, LE32(base)), TagRec(65000, 2, 6, LE32(base + 8))}

UnmodelledData == LE32(5) \o LE32(6) \o <<104, 101, 108, 108, 111, 0>>

\* two directories, one of them with an unmodelled record before, among or
\* after the required records, the other without it
UnmodelledFiles ==
    {LET with == SubSeq(DirRecs(8, 1), 1, at) \o <<rec>> \o SubSeq(DirRecs(8, 1), at + 1, 12)
     IN DirsFile(IF swap THEN <<DirRecs(8, 1), with>> ELSE <<with, DirRecs(8, 1)>>,
                 UnmodelledData) :
        rec \in UnmodelledRecs(DataBase(13, 12)), at \in {0, 6, 12}, swap \in BOOLEAN}

\* two directories with the same records in two orders, one of them the
\* ascending order of the tag codes
PermutedFiles ==
    {LET base == DataBase(12 + GeoCount(g), 12 + GeoCount(g))
         asc == DirRecs(8, 1) \o GeoRec(base, g, 34735) \o GeoRec(base, g, 34736)
                \o GeoRec(base, g, 34737)
         perm == OrderedRecs(base, g, order)
     IN DirsFile(IF swap THEN <<perm, asc>> ELSE <<asc, perm>>, GeoData(g)) :
        g \in GeoVariants, order \in GeoOrders, swap \in BOOLEAN}

CompressionCodes == {1, 5, 8, 32946, 60000}
PhotometricCodes == {1, 4, 7}
PredictorCodes == {None, Some(1), Some(2), Some(9)}
SubfileTypes == {None, Some(0), Some(1), Some(2), Some(4), Some(5)}

\* one directory per combination of the enumerated tags and NewSubfileType
EnumFiles ==
    {DirsFile(<<OptRec(254, 4, nst) \o DirRecs(comp, photo) \o OptRec(317, 3, pred)>>, <<>>) :
        nst \in SubfileTypes, comp \in CompressionCodes,
        photo \in PhotometricCodes, pred \in PredictorCodes}

InitDecode ==
    /\ file \in EnumFiles \cup PermutedFiles \cup UnmodelledFiles
    /\ pc = "walk"
    /\ offset = 8
    /\ endianness = "LittleEndian"
    /\ fetches = <<<<0, 2>>, <<2, 4>>, <<4, 8>>>>
    /\ version = Some(42)
    /\ next_ifd_offset = Some(8)
    /\ visited = <<>>
    /\ ifds = <<>>
    /\ result = Pending
    /\ ifd = NoDirectory
    /\ call = NoCall
    /\ tasks = <<>>

DecodeRest == <<file, pc, offset, endianness, fetches, version, next_ifd_offset,
                visited, ifds, result, tasks>>

CallIsMasked ==
    /\ pc = "done"
    /\ result.kind = "Ok"
    /\ \E i \in 1..Len(ifds) :
          /\ ifd' = ifds[i]
          /\ call' = [op |-> "is_masked", i |-> i, out |-> is_masked(ifds[i])]
    /\ UNCHANGED DecodeRest

CallIsFullResolution ==
    /\ pc = "done"
    /\ result.kind = "Ok"
    /\ \E i \in 1..Len(ifds) :
          /\ ifd' = ifds[i]
          /\ call' = [op |-> "is_full_resolution", i |-> i,
                      out |-> is_full_resolution(ifds[i])]
    /\ UNCHANGED DecodeRest

NextDecode == WalkStep \/ WalkDone \/ CallIsMasked \/ CallIsFullResolution

SpecDecode == InitDecode /\ [][NextDecode]_vars

\* ---------------------------------------------------------------------------
\* Properties of decoding and classifying directories

\* the records of the directory at D, read directly from the object
RecAt(D, i) == D + 2 + (12 * (i - 1))
HasTag(D, code) == \E i \in 1..RawU16(D) : RawU16(RecAt(D, i)) = code
TagField16(D, code) ==
    RawU16(RecAt(D, CHOOSE i \in 1..RawU16(D) : RawU16(RecAt(D, i)) = code) + 8)

\* the codes CompressionMethod::from_u16_exhaustive maps to a named variant;
\* any other code becomes CompressionMethod::Unknown(code)
CompressionKnown(n) == n \in {1, 2, 3, 4, 5, 6, 7, 8, 32946, 32773}

\* C21: a directory whose Compression, PhotometricInterpretation or Predictor
\* record holds a code outside the enumeration does not decode: the walk ends
\* in a failure and no directory is produced.
C21_UnknownEnumCodeFails ==
    (/\ Len(visited) >= 1
     /\ \/ ~ CompressionKnown(TagField16(8, 259))
        \/ ~ IsSome(PhotometricInterpretation_from_u16(TagField16(8, 262)))
        \/ HasTag(8, 317) /\ ~ IsSome(Predictor_from_u16(TagField16(8, 317)))) =>
        /\ ifds = <<>>
        /\ result.kind \in {"Err", "Panic"}

\* C22: is_full_resolution is false exactly when the directory's
\* NewSubfileType record is present with its reduced-resolution bit (bit 0)
\* set; it is true when the record is absent or present with that bit clear.
C22_FullResolutionIffBitClear ==
    call.op = "is_full_resolution" =>
        LET D == visited[call.i]
        IN call.out = FALSE <=> (HasTag(D, 254) /\ TagField16(D, 254) % 2 = 1)

\* C23: is_masked is true only when the directory's NewSubfileType record is
\* present with a value the classification takes for a mask (1 or 2), its
\* PhotometricInterpretation is TransparencyMask (4) and its Compression is
\* Deflate (8); when one of the three does not hold, NewSubfileType absent
\* included, it is false.
C23_MaskedNeedsAllThree ==
    call.op = "is_masked" =>
        LET D == visited[call.i]
        IN call.out = TRUE <=>
            /\ HasTag(D, 254)
            /\ TagField16(D, 254) \in {1, 2}
            /\ TagField16(D, 262) = 4
            /\ TagField16(D, 259) = 8

C23_Witness ==
    /\ call.op = "is_masked"
    /\ call.out = FALSE
    /\ HasTag(visited[call.i], 254)
    /\ TagField16(visited[call.i], 254) = 1
    /\ TagField16(visited[call.i], 262) = 4
    /\ TagField16(visited[call.i], 259) = 32946

\* ---------------------------------------------------------------------------
\* The GeoKey part of from_tags step by step (ifd.rs lines 326-387).  `call` is
\* the frame of the from_tags call in progress: the three decoded tag values
\* the step works from, the index of the next chunk, the key count of the
\* header and the map of resolved keys.

\* the side string "WGS 84|A||" and no side string
AsciiParams == {None, Some(WGS84 \o <<65, 124, 124>>)}
DoubleParams == {None, Some(<<10, 20, 30>>)}

\* key records: (key id, location, count, value-or-offset)
KeyRecords ==
    { <<3072, 0, 1, 32631>>, <<2048, 0, 1, 4326>>,
      <<1026, 34737, 7, 0>>, <<2049, 34737, 6, 0>>, <<3073, 34737, 3, 7>>,
      <<1026, 34737, 0, 2>>, <<1026, 34737, 9, 2>>,
      <<2057, 34736, 1, 0>>, <<2058, 34736, 2, 1>>, <<2059, 34736, 1, 3>>,
      <<2057, 34736, 3, 1>>,
      <<9999, 0, 1, 5>>, <<3072, 99, 1, 5>>, <<2057, 34735, 1, 2>> }

RECURSIVE KeyLists(_)
KeyLists(n) ==
    IF n = 0 THEN {<<>>}
    ELSE KeyLists(n - 1) \cup {l \o <<k>> : l \in KeyLists(n - 1), k \in KeyRecords}

\* GeoKeyDirectoryTag values: a header announcing the records that follow, one
\* more or one fewer; headers of another version or revision; values cut short
GeoKeyData ==
    {<<1, 1, 0, Len(l)>> \o Flatten(l) : l \in KeyLists(MaxKeys)}
    \cup {<<1, 1, 0, Len(l) + 1>> \o Flatten(l) : l \in KeyLists(1)}
    \cup {<<1, 1, 0, Len(l) - 1>> \o Flatten(l) : l \in KeyLists(1) \ {<<>>}}
    \cup {<<v[1], v[2], 0, Len(l)>> \o Flatten(l) :
            v \in {<<2, 1>>, <<1, 2>>, <<0, 1>>, <<1, 0>>}, l \in KeyLists(1)}
    \cup {<<>>, <<1, 1, 0>>, <<1, 1, 0, 1, 3072, 0, 1>>}

Frame(data, ascii, doubles, i, n, tags, st) ==
    [op |-> "from_tags", geo_key_directory_data |-> data,
     geo_ascii_params |-> ascii, geo_double_params |-> doubles,
     i |-> i, number_of_keys |-> n, tags |-> tags, st |-> st]

InitGeoKey ==
    /\ call \in {Frame(data, a, d, 0, 0, <<>>, "ok") :
                    data \in GeoKeyData, a \in AsciiParams, d \in DoubleParams}
    /\ pc = "geo_header"
    /\ file = <<>>
    /\ offset = 0
    /\ endianness = "LittleEndian"
    /\ fetches = <<>>
    /\ version = None
    /\ next_ifd_offset = None
    /\ visited = <<>>
    /\ ifds = <<>>
    /\ result = Pending
    /\ ifd = NoDirectory
    /\ tasks = <<>>

GeoKeyRest == <<file, offset, endianness, fetches, version, next_ifd_offset,
                visited, ifds, ifd, tasks>>

\* lines 327-337: the header chunk, its two assertions, the key count
GeoKeyHeader ==
    /\ pc = "geo_header"
    /\ LET data == call.geo_key_directory_data
       IN IF Len(data) < 4 \/ data[1] # 1 \/ data[2] # 1
          THEN /\ pc' = "panicked"
               /\ result' = Panic
               /\ call' = [call EXCEPT !.st = "panic"]
          ELSE /\ pc' = "geo_keys"
               /\ result' = result
               /\ call' = [call EXCEPT !.i = 1, !.number_of_keys = data[4]]
    /\ UNCHANGED GeoKeyRest

\* lines 340-384: one turn of the loop over the key records
GeoKeyStep ==
    /\ pc = "geo_keys"
    /\ call.i <= call.number_of_keys
    /\ LET data == call.geo_key_directory_data
           i == call.i
           hi == IF Len(data) < 4 * i + 4 THEN Len(data) ELSE 4 * i + 4
           r == IF Len(data) <= 4 * i THEN R("panic", 0)
                ELSE GeoKeyRecord(SubSeq(data, 4 * i + 1, hi), call.tags,
                                  call.geo_ascii_params, call.geo_double_params)
       IN IF r.st = "ok"
          THEN /\ pc' = pc
               /\ result' = result
               /\ call' = [call EXCEPT !.i = i + 1, !.tags = r.v]
          ELSE /\ pc' = "panicked"
               /\ result' = Panic
               /\ call' = [call EXCEPT !.st = "panic"]
    /\ UNCHANGED GeoKeyRest

\* line 385: the typed directory of the resolved keys
GeoKeyFinish ==
    /\ pc = "geo_keys"
    /\ call.i > call.number_of_keys
    /\ LET g == GeoKeyDirectory_from_tags(call.tags)
       IN IF g.st = "ok"
          THEN /\ pc' = "geo_done"
               /\ result' = Ok(g.v)
               /\ call' = call
          ELSE /\ pc' = "failed"
               /\ result' = Err
               /\ call' = [call EXCEPT !.st = "err"]
    /\ UNCHANGED GeoKeyRest

NextGeoKey == GeoKeyHeader \/ GeoKeyStep \/ GeoKeyFinish

SpecGeoKey == InitGeoKey /\ [][NextGeoKey]_vars

\* ---------------------------------------------------------------------------
\* Properties of GeoKey decoding

\* the key records the header announces that are present in the tag value
ListedKeys ==
    LET data == call.geo_key_directory_data
    IN IF Len(data) < 4 THEN {}
       ELSE {i \in 1..data[4] : Len(data) >= 4 * i + 4}
KeyId(i) == call.geo_key_directory_data[4 * i + 1]
KeyLocation(i) == call.geo_key_directory_data[4 * i + 2]
KeyCount(i) == call.geo_key_directory_data[4 * i + 3]
KeyValueOffset(i) == call.geo_key_directory_data[4 * i + 4]

BadGeoHeader ==
    LET data == call.geo_key_directory_data
    IN Len(data) >= 2 /\ (data[1] # 1 \/ data[2] # 1)

\* C24: with a header whose version or key revision is not 1 no key record is
\* examined, and with a listed key record of unknown key id no record after it
\* is; in both cases decoding ends in a failure and never in a GeoKeyDirectory.
C24_GeoKeyFailsFast ==
    /\ BadGeoHeader =>
          /\ call.i = 0
          /\ call.tags = <<>>
          /\ pc \in {"geo_header", "panicked"}
          /\ result.kind \in {"Pending", "Panic"}
    /\ \A i \in ListedKeys :
          ~ KnownGeoKey(KeyId(i)) =>
              /\ call.i <= i
              /\ pc \in {"geo_header", "geo_keys", "panicked"}
              /\ result.kind \in {"Pending", "Panic"}
              /\ KeyId(i) \notin DOMAIN call.tags

C24_Witness ==
    /\ call.geo_key_directory_data = <<1, 1, 0, 2, 3072, 0, 1, 32631, 9999, 0, 1, 5>>
    /\ pc = "panicked"
    /\ call.i = 2
    /\ result = Panic

\* C25: the key record just resolved has, by its location: the value-or-offset
\* short itself (location 0); the count characters of the side string from
\* the offset on, less one trailing '|' if there is one (location 34737); the
\* double at the offset for count 1 and otherwise the count doubles from the
\* offset on, in order (location 34736).
C25_ResolvedByLocation ==
    (pc = "geo_keys" /\ call.i >= 2) =>
        LET i == call.i - 1
            v == call.tags[KeyId(i)]
            off == KeyValueOffset(i)
            n == KeyCount(i)
        IN /\ KeyLocation(i) = 0 => v = Val("Short", off)
           /\ KeyLocation(i) = 34737 =>
                LET str == call.geo_ascii_params.val
                    bar == n > 0 /\ str[off + n] = 124
                IN /\ v.t = "Ascii"
                   /\ Len(v.v) = IF bar THEN n - 1 ELSE n
                   /\ \A j \in 1..Len(v.v) : v.v[j] = str[off + j]
           /\ KeyLocation(i) = 34736 =>
                LET ds == call.geo_double_params.val
                IN IF n = 1 THEN v = Val("Double", ds[off + 1])
                   ELSE /\ v.t = "List"
                        /\ Len(v.v) = n
                        /\ \A j \in 1..n : v.v[j] = Val("Double", ds[off + j])

C25_Witness ==
    /\ pc = "geo_keys"
    /\ call.i = 3
    /\ SubSeq(call.geo_key_directory_data, 5, 12) =
            <<2058, 34736, 2, 1, 1026, 34737, 7, 0>>
    /\ call.tags[2058] = Val("List", <<Val("Double", 20), Val("Double", 30)>>)
    /\ call.tags[1026] = Val("Ascii", <<87, 71, 83, 32, 56, 52>>)

\* C29: a GeoKeyDirectory is produced only when every key record the header
\* announces is present and has contributed its key: a record of another
\* location, a missing record or a range past the side table end in a failure.
C29_NoKeyRecordSkipped ==
    pc = "geo_done" =>
        LET data == call.geo_key_directory_data
        IN /\ Len(data) >= 4 + (4 * data[4])
           /\ \A i \in 1..data[4] : KeyId(i) \in DOMAIN result.val

\* the second directory of an object of two, and the 12 bytes of a record
SecondDir == RawU32(8 + 2 + (12 * RawU16(8)))
RecBytes(D, i) == SubSeq(file, RecAt(D, i) + 1, RecAt(D, i) + 12)
RecordSet(D) == {RecBytes(D, i) : i \in 1..RawU16(D)}

\* two directories holding the same records, each tag code once
PermutedPair ==
    /\ SecondDir # 0
    /\ RawU16(8) = RawU16(SecondDir)
    /\ RecordSet(8) = RecordSet(SecondDir)
    /\ Cardinality(RecordSet(8)) = RawU16(8)

\* C26: two directories made of the same tag records in different orders
\* decode alike: when the first decodes the second decodes to the same
\* directory, GeoKeyDirectory included (the two being laid out in either
\* order, neither decodes unless the other does).
C26_RecordOrderIrrelevant ==
    (PermutedPair /\ Len(visited) = 2) =>
        /\ Len(ifds) = 2
        /\ ifds[2] = [ifds[1] EXCEPT !.next_ifd_offset = None]

C26_Witness ==
    /\ PermutedPair
    /\ Len(ifds) = 2
    /\ RawU16(RecAt(8, 13)) = 34735
    /\ RawU16(RecAt(SecondDir, 1)) = 34737
    /\ RawU16(RecAt(SecondDir, 3)) = 34735
    /\ IsSome(ifds[2].geo_key_directory)
    /\ ifds[2].geo_key_directory.val[1026] = <<87, 71, 83, 32, 56, 52>>
    /\ ifds[2].geo_key_directory.val[2057] = 20

\* the record of a directory whose tag code has no field of its own, if any
Unmodelled(D) == {i \in 1..RawU16(D) : TagField(RawU16(RecAt(D, i))).f = "other_tags"}

\* two directories alike but for one unmodelled record in one of them
UnmodelledPair ==
    /\ SecondDir # 0
    /\ \E D \in {8, SecondDir} :
          LET E == IF D = 8 THEN SecondDir ELSE 8
          IN /\ Cardinality(Unmodelled(D)) = 1
             /\ Unmodelled(E) = {}
             /\ {RecBytes(D, i) : i \in (1..RawU16(D)) \ Unmodelled(D)} = RecordSet(E)

\* C27: a directory with a record of an unmodelled tag code decodes, the
\* records after that one are read, its value is kept in other_tags under its
\* code, and every other field is what the same directory without the record
\* decodes to.
C27_UnmodelledTagIsKept ==
    UnmodelledPair =>
        /\ Len(visited) >= 1 => Len(ifds) = Len(visited)
        /\ Len(visited) = 2 =>
            LET k == IF Unmodelled(8) # {} THEN 1 ELSE 2
                D == visited[k]
                i == CHOOSE j \in Unmodelled(D) : TRUE
                code == RawU16(RecAt(D, i))
                other == ifds[k].other_tags
            IN /\ DOMAIN other = {code}
               /\ RawU16(RecAt(D, i) + 2) = 3 => other[code] = Val("Short", RawU16(RecAt(D, i) + 8))
               /\ RawU16(RecAt(D, i) + 2) = 4 =>
                      other[code] = Val("List", <<Val("Unsigned", 5), Val("Unsigned", 6)>>)
               /\ RawU16(RecAt(D, i) + 2) = 2 =>
                      other[code] = Val("Ascii", <<104, 101, 108, 108, 111>>)
               /\ DOMAIN ifds[3 - k].other_tags = {}
               /\ [ifds[1] EXCEPT !.next_ifd_offset = None, !.other_tags = <<>>]
                  = [ifds[2] EXCEPT !.next_ifd_offset = None, !.other_tags = <<>>]

C27_Witness ==
    /\ UnmodelledPair
    /\ Len(ifds) = 2
    /\ RawU16(RecAt(8, 7)) = 65000
    /\ RawU16(RecAt(8, 7) + 2) = 2
    /\ ifds[1].other_tags[65000] = Val("Ascii", <<104, 101, 108, 108, 111>>)
    /\ ifds[1].sample_format = ifds[2].sample_format

\* C30: while the first record of the directory is decoded, the read at its
\* value field s + 8 asks for at most 4 bytes, whatever the type (the 8-byte
\* types, whose field is a pointer, included): no byte at or after s + 12 is
\* requested from there.
C30_ValueFieldReadStaysInRecord ==
    \A i \in 1..Len(fetches) :
        fetches[i][1] = RecStart + 8 => fetches[i][2] <= RecStart + 12

\* ---------------------------------------------------------------------------
\* The walk of cog.rs (lines 99-218): try_open hands the first-IFD offset to
\* the ImageFileDirectories::open of that file, whose ImageFileDirectory::read
\* reads the tag count as an i16, skips the records, reads the next-IFD
\* offset as an i32 and ends in is_masked_ifd, which is todo!().

\* an object with one directory at D announcing `count` records (present when
\* there are at most 2 of them) and the 4 bytes `nxt` after them
FacadeFile(first, D, count, nxt) ==
    II \o LE16(42) \o first \o [i \in 1..(D - 8) |-> 0] \o LE16(count)
    \o [i \in 1..(IF count <= 2 THEN 12 * count ELSE 0) |-> 0] \o nxt

FacadeFiles ==
    {FacadeFile(first, D, count, nxt) :
        first \in {LE32(8), LE32(16), <<0, 0, 0, 128>>},
        D \in {8, 16},
        count \in {0, 1, 2, 32767, 32768, 65535},
        nxt \in {LE32(0), LE32(8), <<0, 0, 0, 128>>, <<255, 255, 255, 255>>}}

InitFacade ==
    /\ file \in FacadeFiles
    /\ pc = "read_magic"
    /\ offset = 0
    /\ endianness = "LittleEndian"
    /\ fetches = <<>>
    /\ version = None
    /\ next_ifd_offset = None
    /\ visited = <<>>
    /\ ifds = <<>>
    /\ result = Pending
    /\ ifd = NoDirectory
    /\ call = NoCall
    /\ tasks = <<>>

FacadeRest == <<file, endianness, version, ifds, ifd, tasks>>

\* cog.rs lines 105-106 and 178-182: the tag count, read as an i16
FacadeReadTagCount ==
    /\ pc = "walk"
    /\ IsSome(next_ifd_offset)
    /\ LET r == read(seek(cur, next_ifd_offset.val), 2)
       IN /\ SetCursor(r.c)
          /\ visited' = Append(visited, next_ifd_offset.val)
          /\ IF r.st = "ok"
             THEN /\ pc' = "seek_next"
                  /\ result' = result
                  /\ call' = [op |-> "read", ifd_start |-> next_ifd_offset.val,
                              tag_count |-> Signed(r.v)]
             ELSE /\ pc' = "panicked"
                  /\ result' = Panic
                  /\ call' = call
    /\ UNCHANGED next_ifd_offset
    /\ UNCHANGED FacadeRest

\* cog.rs line 189: ifd_start + (12 * tag_count as usize) + 2.  A negative
\* count is sign-extended by the cast; the multiplication then overflows,
\* which panics in a build with overflow checks and otherwise wraps around,
\* to an offset before the directory or past any object.
FacadeSeekNext ==
    /\ pc = "seek_next"
    /\ LET tag_count == call.tag_count
           wrapped == call.ifd_start + (12 * tag_count) + 2
       IN \/ /\ tag_count >= 0
             /\ offset' = Plus(call.ifd_start, (12 * tag_count) + 2)
             /\ pc' = "read_next"
             /\ result' = result
          \/ /\ tag_count < 0
             /\ offset' = offset
             /\ pc' = "panicked"
             /\ result' = Panic
          \/ /\ tag_count < 0
             /\ offset' = IF call.ifd_start # Huge /\ wrapped >= 0 THEN wrapped ELSE Huge
             /\ pc' = "read_next"
             /\ result' = result
    /\ UNCHANGED <<fetches, next_ifd_offset, visited, call>>
    /\ UNCHANGED FacadeRest

\* cog.rs lines 190-198: the next-IFD offset, read as an i32 and cast to usize
FacadeReadNext ==
    /\ pc = "read_next"
    /\ LET r == read(cur, 4)
       IN /\ SetCursor(r.c)
          /\ IF r.st = "ok"
             THEN /\ pc' = "is_masked_ifd"
                  /\ result' = result
                  /\ next_ifd_offset' =
                        IF Signed(r.v) = 0 THEN None ELSE Some(i32_as_usize(Signed(r.v)))
             ELSE /\ pc' = "panicked"
                  /\ result' = Panic
                  /\ next_ifd_offset' = next_ifd_offset
    /\ UNCHANGED <<visited, call>>
    /\ UNCHANGED FacadeRest

\* cog.rs lines 200 and 215-216: is_masked_ifd is todo!()
FacadeIsMaskedIfd ==
    /\ pc = "is_masked_ifd"
    /\ pc' = "panicked"
    /\ result' = Panic
    /\ UNCHANGED <<offset, fetches, next_ifd_offset, visited, call>>
    /\ UNCHANGED FacadeRest

NextFacade ==
    \/ ReadMagic \/ ReadVersion \/ ReadFirstIfd
    \/ FacadeReadTagCount \/ FacadeSeekNext \/ FacadeReadNext \/ FacadeIsMaskedIfd

SpecFacade == InitFacade /\ [][NextFacade]_vars

\* C28: the walk of cog.rs takes the tag count as the unsigned 16-bit number
\* at the directory's offset D, so that the next-IFD offset is sought at
\* D + 2 + 12 * count, the position the walker of ifd.rs computes, for every
\* count up to 65535; and it takes the first-IFD and next-IFD offsets as the
\* unsigned 32-bit numbers of the object.
C28_UnsignedCountAndOffsets ==
    /\ pc \in {"seek_next", "read_next"} => call.tag_count = RawU16(call.ifd_start)
    /\ pc = "read_next" =>
          offset = Plus(call.ifd_start, (12 * RawU16(call.ifd_start)) + 2)
    /\ (pc = "walk" /\ visited = <<>>) => next_ifd_offset = Some(RawU32(4))
    /\ pc = "is_masked_ifd" =>
          next_ifd_offset = IF RawU32(offset - 4) = 0 THEN None
                            ELSE Some(RawU32(offset - 4))

====
